---- MODULE Spec2Model ----
(***************************************************************************)
(* RepairMind print client: the persistent job queue (core/jobQueue.js)    *)
(* and the socket session (core/socketClient.js), with the parts of the   *)
(* orchestrator (core/PrintClientCore.js) that drive them.                 *)
(*                                                                         *)
(* Time is counted in units of 5000 ms (the period of the retry tick).     *)
(***************************************************************************)
EXTENDS Integers, Sequences, FiniteSets, TLC

(***************************************************************************)
(* Bounds of the model                                                     *)
(***************************************************************************)
MaxTime == 2
MaxEnqueueCalls == 2
MaxCrashes == 2

(***************************************************************************)
(* Program constants                                                       *)
(***************************************************************************)
\* jobQueue.js:23  this.maxRetries = options.maxRetries || 3
MaxRetries == 3
\* jobQueue.js:24  this.retryDelays = [5000, 15000, 60000], in units of 5000 ms
RetryDelays == <<1, 3, 12>>
\* jobQueue.js:26  this.defaultTTL = 24 h, in units of 5000 ms
DefaultTTL == 17280
\* jobQueue.js:16  const PRIORITY = { urgent: 0, normal: 1, low: 2 }
PRIORITY == [urgent |-> 0, normal |-> 1, low |-> 2]

\* the value of a nextRetry that is null
NoTime == -1
\* the value of an error that is null
NoError == "null"

Ids == {"J1", "J2"}
Printers == {"P1", "P2"}
\* a job whose printerSystemName is missing (undefined or empty)
NoPrinter == "none"

TerminalStatuses == {"completed", "failed", "expired", "cancelled"}

VARIABLES
  jobs,                \* JobQueue.jobs: the array of entries
  processingPrinters,  \* JobQueue.processingPrinters
  processingLock,      \* JobQueue._processingLock
  saveTimer,           \* JobQueue._saveTimer is set
  metrics,             \* JobQueue.metrics
  diskMain,            \* the file <storePath>
  diskTmp,             \* the file <storePath>.tmp
  savePc,              \* position inside _saveNow: idle, writing, written
  saveData,            \* the local `data` of _saveNow
  raw,                 \* the local `raw` of the last load()
  phase,               \* running, or crashed (the process is dead)
  now,                 \* Date.now()
  emitted,             \* the events the last step emitted, in order
  lastOp,              \* the last operation and what it returned
  execStarted,         \* per id: how many times the executor was invoked
  execCompleted,       \* per id: how many times the executor resolved
  enqueueCalls,        \* how many times enqueue was called
  crashes,             \* how many times the process crashed
  crashNonTerminal,    \* ids that were non-terminal in memory at the last crash
  crashWindowCompleted, \* ids completed in memory but not on disk at the last crash
  everWritten,         \* some save has written a complete <path>.tmp
  client,              \* the fields of the SocketClient
  attempts,            \* the connection attempts whose callbacks can still run
  connectTimer,        \* the 15 s timeout armed by connect() is pending
  connectPromise,      \* the promise connect() returned
  sockEmitted,         \* the events the SocketClient emitted in the last step
  lost,                \* an established session was dropped by the network
  rejectError,         \* the message of the Error the last step rejected with
  core,                \* PrintClientCore: its connected flag and its socket field
  reconnection,        \* what the reconnection that completed in the last step did
  requests,            \* the calls of _emitWithTimeout: listeners, timer, promise
  sessions,            \* SpoolerMonitor: the closures of the calls of monitor()
  activeJobs           \* SpoolerMonitor.activeJobs: jobKey -> the interval it holds

qvars == <<jobs, processingPrinters, processingLock, saveTimer, metrics,
           diskMain, diskTmp, savePc, saveData, raw, phase, now, emitted,
           lastOp, execStarted, execCompleted, enqueueCalls, crashes,
           crashNonTerminal, crashWindowCompleted, everWritten>>

svars == <<client, attempts, connectTimer, connectPromise, sockEmitted, lost,
           rejectError, core, reconnection, requests>>

mvars == <<sessions, activeJobs>>

vars == <<qvars, svars, mvars>>

(***************************************************************************)
(* Helpers on sequences                                                    *)
(***************************************************************************)
Min(a, b) == IF a <= b THEN a ELSE b

\* Array.prototype.splice(idx, 1)
RemoveAt(s, idx) == [i \in 1..(Len(s) - 1) |-> IF i < idx THEN s[i] ELSE s[i + 1]]

\* Array.prototype.filter
RECURSIVE FilterSeq(_, _)
FilterSeq(s, keep) ==
  IF s = <<>> THEN <<>>
  ELSE IF Head(s).id \in keep THEN <<Head(s)>> \o FilterSeq(Tail(s), keep)
       ELSE FilterSeq(Tail(s), keep)

\* Array.prototype.findIndex(j => j.id === id); 0 stands for -1
FindIndex(js, id) ==
  IF \E i \in DOMAIN js : js[i].id = id
  THEN CHOOSE i \in DOMAIN js : js[i].id = id /\ \A k \in 1..(i - 1) : js[k].id # id
  ELSE 0

Ev(name, id) == [name |-> name, id |-> id]

\* an operation, the job id and the printerSystemName it was called with, and
\* what it returned
OpOn(name, id, printer, ret) ==
  [name |-> name, id |-> id, printer |-> printer, ret |-> ret]

Op(name, id, ret) == OpOn(name, id, "", ret)

ZeroMetrics == [totalEnqueued |-> 0, totalCompleted |-> 0, totalFailed |-> 0,
                totalExpired |-> 0, totalDeduplicated |-> 0]

NonTerminalIds(js) == {js[i].id : i \in {k \in DOMAIN js : js[k].status \in {"queued", "processing"}}}

(***************************************************************************)
(* JobQueue: scheduling                                                    *)
(***************************************************************************)
\* PRIORITY[a.priority] ?? 1
PrioOf(p) == IF p \in DOMAIN PRIORITY THEN PRIORITY[p] ELSE 1

\* a filter under a global lock: nothing is ready while any printer is busy
ReadySetOneAtATime(js, procs, t) ==
  {i \in DOMAIN js :
     /\ js[i].status = "queued"
     /\ (js[i].nextRetry = NoTime \/ js[i].nextRetry <= t)
     /\ procs = {}}

\* the filter of processNext: queued, due, and its printer idle
ReadySet(js, procs, t) ==
  {i \in DOMAIN js :
     /\ js[i].status = "queued"
     /\ (js[i].nextRetry = NoTime \/ js[i].nextRetry <= t)
     /\ js[i].printerSystemName \notin procs}

\* a comparator that orders by createdAt alone
BeforeByAge(js, a, b) ==
  \/ js[a].createdAt < js[b].createdAt
  \/ js[a].createdAt = js[b].createdAt /\ a < b

\* a comparator that orders entries of one priority by nextRetry
BeforeByNextRetry(js, a, b) ==
  \/ PrioOf(js[a].priority) < PrioOf(js[b].priority)
  \/ /\ PrioOf(js[a].priority) = PrioOf(js[b].priority)
     /\ js[a].nextRetry < js[b].nextRetry
  \/ /\ PrioOf(js[a].priority) = PrioOf(js[b].priority)
     /\ js[a].nextRetry = js[b].nextRetry
     /\ a < b

\* the comparator of processNext; the sort is stable, so ties keep array order
Before(js, a, b) ==
  \/ PrioOf(js[a].priority) < PrioOf(js[b].priority)
  \/ /\ PrioOf(js[a].priority) = PrioOf(js[b].priority)
     /\ js[a].createdAt < js[b].createdAt
  \/ /\ PrioOf(js[a].priority) = PrioOf(js[b].priority)
     /\ js[a].createdAt = js[b].createdAt
     /\ a < b

RECURSIVE SortReady(_, _)
SortReady(js, S) ==
  IF S = {} THEN <<>>
  ELSE LET m == CHOOSE a \in S : \A b \in S \ {a} : Before(js, a, b)
       IN  <<m>> \o SortReady(js, S \ {m})

\* the synchronous head of _processJob: the printer becomes busy, the entry
\* becomes processing, and the executor is invoked
ProcessJobStart(st, i, t) ==
  [jobs    |-> [st.jobs EXCEPT ![i].status = "processing", ![i].updatedAt = t],
   procs   |-> st.procs \cup {st.jobs[i].printerSystemName},
   started |-> Append(st.started, st.jobs[i].id)]

\* the loop without its check that the printer is still idle
RECURSIVE StartLoopNoBusyCheck(_, _, _)
StartLoopNoBusyCheck(st, order, t) ==
  IF order = <<>> THEN st
  ELSE StartLoopNoBusyCheck(ProcessJobStart(st, Head(order), t), Tail(order), t)

\* the for loop of processNext over readyJobs
RECURSIVE StartLoop(_, _, _)
StartLoop(st, order, t) ==
  IF order = <<>> THEN st
  ELSE IF st.jobs[Head(order)].printerSystemName \in st.procs
       THEN StartLoop(st, Tail(order), t)
       ELSE StartLoop(ProcessJobStart(st, Head(order), t), Tail(order), t)

\* processNext(): the executor callback is always set (the orchestrator sets
\* it right after it constructs the queue)
ProcessNext(js, procs, lock, t) ==
  IF lock THEN [jobs |-> js, procs |-> procs, started |-> <<>>]
  ELSE StartLoop([jobs |-> js, procs |-> procs, started |-> <<>>],
                 SortReady(js, ReadySet(js, procs, t)), t)

\* the job-processing events of the entries a pass started
RECURSIVE StartEvents(_)
StartEvents(ids) ==
  IF ids = <<>> THEN <<>>
  ELSE <<Ev("job-processing", Head(ids))>> \o StartEvents(Tail(ids))

\* the executor invocations of a pass
CountStarted(cnt, ids) ==
  [id \in Ids |-> cnt[id] + Cardinality({k \in DOMAIN ids : ids[k] = id})]

(***************************************************************************)
(* JobQueue.trimHistory                                                    *)
(***************************************************************************)
\* jobQueue.js:25  options.maxCompletedJobs (100 by default), scaled to the
\* number of ids of the model so that trimming happens
MaxCompletedJobs == 1

TerminalIdx(js) == {i \in DOMAIN js : js[i].status \in TerminalStatuses}

\* terminal.sort by updatedAt (stable), then the first n of them
RECURSIVE OldestTerminal(_, _, _)
OldestTerminal(js, S, n) ==
  IF n <= 0 \/ S = {} THEN {}
  ELSE LET m == CHOOSE a \in S : \A b \in S \ {a} :
                   \/ js[a].updatedAt < js[b].updatedAt
                   \/ (js[a].updatedAt = js[b].updatedAt /\ a < b)
       IN  {js[m].id} \cup OldestTerminal(js, S \ {m}, n - 1)

TrimNeeded(js) == Cardinality(TerminalIdx(js)) > MaxCompletedJobs

TrimHistory(js) ==
  IF TrimNeeded(js)
  THEN LET removeIds == OldestTerminal(js, TerminalIdx(js),
                                       Cardinality(TerminalIdx(js)) - MaxCompletedJobs)
       IN  FilterSeq(js, {js[i].id : i \in DOMAIN js} \ removeIds)
  ELSE js

(***************************************************************************)
(* JobQueue.enqueue                                                        *)
(***************************************************************************)
NewEntry(id, printer, priority, ttl, t) ==
  [id |-> id, printerSystemName |-> printer, status |-> "queued",
   priority |-> priority, retries |-> 0, nextRetry |-> NoTime,
   createdAt |-> t, updatedAt |-> t,
   expiresAt |-> t + (IF ttl # 0 THEN ttl ELSE DefaultTTL),
   error |-> NoError]

\* the push without the splice of the old terminal entry
EnqueuePushNoSplice(js, id, printer, priority, ttl, t) ==
  Append(js, NewEntry(id, printer, priority, ttl, t))

\* the entries after the idempotency check let the job in: an old terminal
\* entry of the same id is spliced out, the new entry is pushed
EnqueuePush(js, id, printer, priority, ttl, t) ==
  LET idx  == FindIndex(js, id)
      kept == IF idx > 0 THEN RemoveAt(js, idx) ELSE js
  IN  Append(kept, NewEntry(id, printer, priority, ttl, t))

\* the idempotency test that only looks for a queued entry
IsDuplicateQueuedOnly(js, id) ==
  LET idx == FindIndex(js, id)
  IN  idx > 0 /\ js[idx].status = "queued"

\* the idempotency check: the id exists and is not terminal
IsDuplicate(js, id) ==
  LET idx == FindIndex(js, id)
  IN  idx > 0 /\ js[idx].status \in {"queued", "processing"}

Running == phase = "running" /\ savePc = "idle"

\* what is remembered of the last crash is kept until the step after load()
ForgetCrash ==
  crashNonTerminal' = {} /\ crashWindowCompleted' = {} /\ UNCHANGED everWritten

\* a duplicate that is also counted as enqueued
CountDeduplicatedAsEnqueued(m) ==
  [m EXCEPT !.totalDeduplicated = @ + 1, !.totalEnqueued = @ + 1]

\* this.metrics.totalDeduplicated++
CountDeduplicated(m) == [m EXCEPT !.totalDeduplicated = @ + 1]

Enqueue(id, printer, priority, ttl) ==
  /\ Running
  /\ enqueueCalls < MaxEnqueueCalls
  /\ enqueueCalls' = enqueueCalls + 1
  /\ IF printer = NoPrinter
     THEN /\ emitted' = <<Ev("error", id)>>
          /\ lastOp' = OpOn("enqueue", id, printer, FALSE)
          /\ UNCHANGED <<jobs, processingPrinters, saveTimer, metrics, execStarted>>
     ELSE IF IsDuplicate(jobs, id)
     THEN /\ metrics' = CountDeduplicated(metrics)
          /\ emitted' = <<Ev("job-deduplicated", id)>>
          /\ lastOp' = OpOn("enqueue", id, printer, FALSE)
          /\ UNCHANGED <<jobs, processingPrinters, saveTimer, execStarted>>
     ELSE LET pushed == EnqueuePush(jobs, id, printer, priority, ttl, now)
              st     == ProcessNext(pushed, processingPrinters, processingLock, now)
          IN  /\ jobs' = st.jobs
              /\ processingPrinters' = st.procs
              /\ metrics' = [metrics EXCEPT !.totalEnqueued = @ + 1]
              /\ saveTimer' = TRUE
              /\ emitted' = <<Ev("job-queued", id)>> \o StartEvents(st.started)
              /\ execStarted' = CountStarted(execStarted, st.started)
              /\ lastOp' = OpOn("enqueue", id, printer, TRUE)
  /\ UNCHANGED <<processingLock, diskMain, diskTmp, savePc, saveData, raw, phase,
                 now, execCompleted, crashes>>
  /\ ForgetCrash
  /\ UNCHANGED <<svars, mvars>>

(***************************************************************************)
(* JobQueue._processJob: the continuation after the executor settled       *)
(***************************************************************************)
\* the messages the executor rejects with
ExecErrors == {"Printer not found"}

\* the tail of _processJob without processingPrinters.delete
AfterSettleKeepsPrinter(js, printer) ==
  ProcessNext(TrimHistory(js), processingPrinters, processingLock, now)

\* the tail of _processJob without the final processNext
AfterSettleNoPass(js, printer) ==
  [jobs |-> TrimHistory(js), procs |-> processingPrinters \ {printer},
   started |-> <<>>]

\* the tail of _processJob: release the printer, trimHistory, processNext
AfterSettle(js, printer) ==
  ProcessNext(TrimHistory(js), processingPrinters \ {printer}, processingLock, now)

\* the success branch without entry.error = null
SettleSuccessKeepsError(e, t) ==
  [e EXCEPT !.status = "completed", !.updatedAt = t]

\* the success branch of _processJob on an entry
SettleSuccess(e, t) ==
  [e EXCEPT !.status = "completed", !.updatedAt = t, !.error = NoError]

\* await this.executeCallback(entry.job) resolved
ExecSucceed(i) ==
  /\ Running
  /\ i \in DOMAIN jobs
  /\ jobs[i].status = "processing"
  /\ LET done == [jobs EXCEPT ![i] = SettleSuccess(jobs[i], now)]
         st   == AfterSettle(done, jobs[i].printerSystemName)
     IN  /\ jobs' = st.jobs
         /\ processingPrinters' = st.procs
         /\ emitted' = <<Ev("job-completed", jobs[i].id)>> \o StartEvents(st.started)
         /\ execStarted' = CountStarted(execStarted, st.started)
  /\ metrics' = [metrics EXCEPT !.totalCompleted = @ + 1]
  /\ execCompleted' = [execCompleted EXCEPT ![jobs[i].id] = @ + 1]
  /\ saveTimer' = TRUE
  /\ lastOp' = Op("execSucceed", jobs[i].id, TRUE)
  /\ UNCHANGED <<processingLock, diskMain, diskTmp, savePc, saveData, raw, phase,
                 now, enqueueCalls, crashes>>
  /\ ForgetCrash
  /\ UNCHANGED <<svars, mvars>>

\* the catch branch that gives up one retry early
SettleFailureOneShort(e, msg, t) ==
  IF e.retries + 1 < MaxRetries
  THEN [e EXCEPT !.error = msg, !.updatedAt = t, !.retries = e.retries + 1,
                 !.nextRetry = t + RetryDelays[Min(e.retries + 1, Len(RetryDelays))],
                 !.status = "queued"]
  ELSE [e EXCEPT !.error = msg, !.updatedAt = t, !.status = "failed"]

\* the catch branch that looks up the delay before it increments retries
SettleFailureStaleDelay(e, msg, t) ==
  IF e.retries < MaxRetries
  THEN [e EXCEPT !.error = msg, !.updatedAt = t, !.retries = e.retries + 1,
                 !.nextRetry = t + RetryDelays[IF e.retries = 0 THEN 1
                                               ELSE Min(e.retries, Len(RetryDelays))],
                 !.status = "queued"]
  ELSE [e EXCEPT !.error = msg, !.updatedAt = t, !.status = "failed"]

\* the catch branch of _processJob on an entry: retry or fail
SettleFailure(e, msg, t) ==
  IF e.retries < MaxRetries
  THEN [e EXCEPT !.error = msg, !.updatedAt = t, !.retries = e.retries + 1,
                 !.nextRetry = t + RetryDelays[Min(e.retries + 1, Len(RetryDelays))],
                 !.status = "queued"]
  ELSE [e EXCEPT !.error = msg, !.updatedAt = t, !.status = "failed"]

\* await this.executeCallback(entry.job) rejected
ExecFail(i, msg) ==
  /\ Running
  /\ i \in DOMAIN jobs
  /\ jobs[i].status = "processing"
  /\ LET settled == [jobs EXCEPT ![i] = SettleFailure(jobs[i], msg, now)]
         st      == AfterSettle(settled, jobs[i].printerSystemName)
     IN  /\ jobs' = st.jobs
         /\ processingPrinters' = st.procs
         /\ emitted' = <<Ev(IF settled[i].status = "failed" THEN "job-failed"
                            ELSE "job-retrying", jobs[i].id)>>
                       \o StartEvents(st.started)
         /\ execStarted' = CountStarted(execStarted, st.started)
         /\ metrics' = IF settled[i].status = "failed"
                       THEN [metrics EXCEPT !.totalFailed = @ + 1]
                       ELSE metrics
  /\ saveTimer' = TRUE
  /\ lastOp' = Op("execFail", jobs[i].id, FALSE)
  /\ UNCHANGED <<processingLock, diskMain, diskTmp, savePc, saveData, raw, phase,
                 now, execCompleted, enqueueCalls, crashes>>
  /\ ForgetCrash
  /\ UNCHANGED <<svars, mvars>>

(***************************************************************************)
(* JobQueue: timers, cancelJob                                             *)
(***************************************************************************)
\* the 5 s interval of startRetryTimer: processNext()
RetryTick ==
  /\ Running
  /\ LET st == ProcessNext(jobs, processingPrinters, processingLock, now)
     IN  /\ jobs' = st.jobs
         /\ processingPrinters' = st.procs
         /\ emitted' = StartEvents(st.started)
         /\ execStarted' = CountStarted(execStarted, st.started)
         /\ saveTimer' = (saveTimer \/ st.started # <<>>)
  /\ lastOp' = Op("retryTick", "", TRUE)
  /\ UNCHANGED <<processingLock, metrics, diskMain, diskTmp, savePc, saveData,
                 raw, phase, now, execCompleted, enqueueCalls, crashes>>
  /\ ForgetCrash
  /\ UNCHANGED <<svars, mvars>>

\* the condition of _expireJobs and of load(): queued and past expiresAt
Expirable(e, t) == e.status = "queued" /\ e.expiresAt # 0 /\ e.expiresAt < t

\* an expiry that is booked as a failure
ExpireEntryAsFailed(e, t) ==
  [e EXCEPT !.status = "failed", !.updatedAt = t,
            !.error = "Job expired (TTL exceeded)"]

\* the body of the if in _expireJobs, on one entry
ExpireEntry(e, t) ==
  [e EXCEPT !.status = "expired", !.updatedAt = t,
            !.error = "Job expired (TTL exceeded)"]

RECURSIVE ExpireEvents(_, _)
ExpireEvents(js, t) ==
  IF js = <<>> THEN <<>>
  ELSE (IF Expirable(Head(js), t) THEN <<Ev("job-expired", Head(js).id)>> ELSE <<>>)
       \o ExpireEvents(Tail(js), t)

\* the 60 s interval of startRetryTimer: _expireJobs()
ExpireTick ==
  /\ Running
  /\ jobs' = [i \in DOMAIN jobs |->
                IF Expirable(jobs[i], now) THEN ExpireEntry(jobs[i], now) ELSE jobs[i]]
  /\ emitted' = ExpireEvents(jobs, now)
  /\ metrics' = [metrics EXCEPT !.totalExpired = @ + Len(ExpireEvents(jobs, now))]
  /\ saveTimer' = (saveTimer \/ ExpireEvents(jobs, now) # <<>>)
  /\ lastOp' = Op("expireTick", "", TRUE)
  /\ UNCHANGED <<processingPrinters, processingLock, diskMain, diskTmp, savePc,
                 saveData, raw, phase, now, execStarted, execCompleted,
                 enqueueCalls, crashes>>
  /\ ForgetCrash
  /\ UNCHANGED <<svars, mvars>>

\* the guard without the test on 'processing'
CancelAllowedWhileProcessing(js, id) == FindIndex(js, id) > 0

\* the guard of cancelJob: the entry exists and is not processing
CancelAllowed(js, id) ==
  FindIndex(js, id) > 0 /\ js[FindIndex(js, id)].status # "processing"

CancelJob(id) ==
  /\ Running
  /\ IF CancelAllowed(jobs, id)
     THEN /\ jobs' = [jobs EXCEPT ![FindIndex(jobs, id)].status = "cancelled",
                                  ![FindIndex(jobs, id)].updatedAt = now,
                                  ![FindIndex(jobs, id)].error = "Cancelled by user"]
          /\ saveTimer' = TRUE
          /\ emitted' = <<Ev("job-cancelled", id)>>
          /\ lastOp' = Op("cancelJob", id, TRUE)
     ELSE /\ emitted' = <<>>
          /\ lastOp' = Op("cancelJob", id, FALSE)
          /\ UNCHANGED <<jobs, saveTimer>>
  /\ UNCHANGED <<processingPrinters, processingLock, metrics, diskMain, diskTmp,
                 savePc, saveData, raw, phase, now, execStarted, execCompleted,
                 enqueueCalls, crashes>>
  /\ ForgetCrash
  /\ UNCHANGED <<svars, mvars>>

\* Date.now() advances: by one unit, or up to the next instant at which an
\* entry becomes due or expirable
DueTimes == {jobs[i].nextRetry : i \in DOMAIN jobs} \cup
            {jobs[i].expiresAt + 1 : i \in DOMAIN jobs}

AdvanceTime(t) ==
  /\ savePc = "idle"
  /\ t > now
  /\ t <= MaxTime
  /\ t = now + 1 \/ t \in DueTimes
  /\ now' = t
  /\ emitted' = <<>>
  /\ lastOp' = Op("time", "", TRUE)
  /\ UNCHANGED <<jobs, processingPrinters, processingLock, saveTimer, metrics,
                 diskMain, diskTmp, savePc, saveData, raw, phase, execStarted,
                 execCompleted, enqueueCalls, crashes>>
  /\ IF phase = "crashed"
     THEN UNCHANGED <<crashNonTerminal, crashWindowCompleted, everWritten>>
     ELSE ForgetCrash
  /\ UNCHANGED <<svars, mvars>>

\* the time by which every retry of every accepted delivery is due
RetryHorizon ==
  MaxEnqueueCalls * (RetryDelays[1] + RetryDelays[2] + RetryDelays[3])

\* the instants at which a waiting entry becomes due
RetryDue == {jobs[i].nextRetry : i \in {k \in DOMAIN jobs :
               jobs[k].status = "queued" /\ jobs[k].nextRetry > now}}

\* Date.now() reaches the instant at which the next waiting entry is due
WaitForRetry ==
  /\ Running
  /\ RetryDue # {}
  /\ LET t == CHOOSE d \in RetryDue : \A o \in RetryDue : d <= o
     IN  /\ t <= RetryHorizon
         /\ now' = t
  /\ emitted' = <<>>
  /\ lastOp' = Op("time", "", TRUE)
  /\ UNCHANGED <<jobs, processingPrinters, processingLock, saveTimer, metrics,
                 diskMain, diskTmp, savePc, saveData, raw, phase, execStarted,
                 execCompleted, enqueueCalls, crashes>>
  /\ ForgetCrash
  /\ UNCHANGED <<svars, mvars>>

\* jobQueue.js:210  the period of the expiration interval, 60000 ms
ExpirationInterval == 12

\* Date.now() reaches the first firing of the expiration interval; the retry
\* interval, which is five seconds long, has fired on the way
WaitForExpiration ==
  /\ Running
  /\ now < ExpirationInterval
  /\ \A d \in RetryDue : d > ExpirationInterval
  /\ \A i \in DOMAIN jobs : jobs[i].status = "queued" => jobs[i].nextRetry > now
  /\ now' = ExpirationInterval
  /\ emitted' = <<>>
  /\ lastOp' = Op("time", "", TRUE)
  /\ UNCHANGED <<jobs, processingPrinters, processingLock, saveTimer, metrics,
                 diskMain, diskTmp, savePc, saveData, raw, phase, execStarted,
                 execCompleted, enqueueCalls, crashes>>
  /\ ForgetCrash
  /\ UNCHANGED <<svars, mvars>>

\* the expiration interval fires, sixty seconds after startRetryTimer or later
ExpireTickDue == now >= ExpirationInterval /\ ExpireTick

(***************************************************************************)
(* JobQueue: persistence                                                   *)
(***************************************************************************)
Absent == [kind |-> "absent"]
\* a file whose write was cut short: it does not parse as JSON
Partial == [kind |-> "partial"]
\* JSON.stringify({jobs, metrics, savedAt})
Serialize(js, m) == [kind |-> "full", jobs |-> js, metrics |-> m]

\* the timeout that save() arms fires: _saveNow() serializes and starts to
\* write <path>.tmp (writeFileSync truncates the file first)
SaveTimerFire ==
  /\ Running
  /\ saveTimer
  /\ saveTimer' = FALSE
  /\ saveData' = Serialize(jobs, metrics)
  /\ diskTmp' = Partial
  /\ savePc' = "writing"
  /\ emitted' = <<>>
  /\ lastOp' = Op("saveNow", "", TRUE)
  /\ UNCHANGED <<jobs, processingPrinters, processingLock, metrics, diskMain, raw,
                 phase, now, execStarted, execCompleted, enqueueCalls, crashes>>
  /\ ForgetCrash
  /\ UNCHANGED <<svars, mvars>>

\* fs.writeFileSync(tmpPath, data) returns
SaveWriteDone ==
  /\ phase = "running"
  /\ savePc = "writing"
  /\ diskTmp' = saveData
  /\ savePc' = "written"
  /\ UNCHANGED <<jobs, processingPrinters, processingLock, saveTimer, metrics,
                 diskMain, saveData, phase, now, execStarted,
                 execCompleted, enqueueCalls, crashes>>
  /\ crashNonTerminal' = {} /\ crashWindowCompleted' = {}
  /\ everWritten' = TRUE
  /\ raw' = Absent
  /\ emitted' = <<>>
  /\ lastOp' = Op("saveNow", "", TRUE)
  /\ UNCHANGED <<svars, mvars>>

\* fs.renameSync(tmpPath, storePath) returns
SaveRename ==
  /\ phase = "running"
  /\ savePc = "written"
  /\ diskMain' = diskTmp
  /\ diskTmp' = Absent
  /\ savePc' = "idle"
  /\ saveData' = Absent
  /\ UNCHANGED <<jobs, processingPrinters, processingLock, saveTimer, metrics, raw,
                 phase, now, execStarted, execCompleted,
                 enqueueCalls, crashes>>
  /\ ForgetCrash
  /\ emitted' = <<>>
  /\ lastOp' = Op("saveNow", "", TRUE)
  /\ UNCHANGED <<svars, mvars>>

\* writeFileSync or renameSync throws (disk full, file locked): the catch of
\* _saveNow emits error and the files stay as they are
SaveFails ==
  /\ phase = "running"
  /\ savePc \in {"writing", "written"}
  /\ savePc' = "idle"
  /\ saveData' = Absent
  /\ emitted' = <<Ev("error", "")>>
  /\ UNCHANGED <<jobs, processingPrinters, processingLock, saveTimer, metrics,
                 diskMain, diskTmp, phase, now, execStarted,
                 execCompleted, enqueueCalls, crashes>>
  /\ ForgetCrash
  /\ raw' = Absent
  /\ lastOp' = Op("saveNow", "", TRUE)
  /\ UNCHANGED <<svars, mvars>>

\* what load() reads: the main file if it exists and parses, else the .tmp
\* file if it exists and parses, else nothing
ReadStore(main, tmp) ==
  IF main.kind = "full" THEN main
  ELSE IF tmp.kind = "full" THEN tmp
  ELSE Absent

\* the recovery loop with the expiry test before the demotion
LoadEntryExpireFirst(e, t) ==
  LET expired == IF Expirable(e, t) THEN ExpireEntry(e, t) ELSE e
  IN  IF expired.status = "processing"
      THEN [expired EXCEPT !.status = "queued", !.nextRetry = NoTime, !.updatedAt = t]
      ELSE expired

\* the recovery loop without the reset of the entries a crash left processing
LoadEntryNoDemotion(e, t) ==
  IF Expirable(e, t) THEN ExpireEntry(e, t) ELSE e

\* the per-entry recovery loop of load(): demote processing, then expire
LoadEntry(e, t) ==
  LET demoted == IF e.status = "processing"
                 THEN [e EXCEPT !.status = "queued", !.nextRetry = NoTime,
                                !.updatedAt = t]
                 ELSE e
  IN  IF Expirable(demoted, t) THEN ExpireEntry(demoted, t) ELSE demoted

LoadJobs(js, t) == [i \in DOMAIN js |-> LoadEntry(js[i], t)]

LoadMetrics(data, t) ==
  [data.metrics EXCEPT !.totalExpired =
     @ + Cardinality({i \in DOMAIN data.jobs :
                        LoadEntry(data.jobs[i], t).status = "expired"
                        /\ data.jobs[i].status # "expired"})]

\* the process dies; what it held in memory is gone, the files stay
Crash ==
  /\ phase = "running"
  /\ crashes < MaxCrashes
  /\ crashes' = crashes + 1
  /\ phase' = "crashed"
  /\ crashNonTerminal' = NonTerminalIds(jobs)
  /\ crashWindowCompleted' =
       {jobs[i].id : i \in {k \in DOMAIN jobs :
          /\ jobs[k].status = "completed"
          /\ LET d == ReadStore(diskMain, diskTmp)
             IN  \/ d.kind # "full"
                 \/ ~ \E n \in DOMAIN d.jobs :
                        d.jobs[n].id = jobs[k].id /\ d.jobs[n].status = "completed"}}
  /\ jobs' = <<>>
  /\ processingPrinters' = {}
  /\ saveTimer' = FALSE
  /\ metrics' = ZeroMetrics
  /\ savePc' = "idle"
  /\ saveData' = Absent
  /\ raw' = Absent
  /\ emitted' = <<>>
  /\ lastOp' = Op("crash", "", TRUE)
  /\ UNCHANGED <<processingLock, diskMain, diskTmp, now, execStarted,
                 execCompleted, enqueueCalls, everWritten>>
  /\ UNCHANGED <<svars, mvars>>

\* the process restarts: the constructor runs load(), which ends with an
\* immediate _saveNow() when it recovered something
Load ==
  /\ phase = "crashed"
  /\ phase' = "running"
  /\ raw' = ReadStore(diskMain, diskTmp)
  /\ IF raw'.kind = "full"
     THEN /\ jobs' = LoadJobs(raw'.jobs, now)
          /\ metrics' = LoadMetrics(raw', now)
          /\ saveData' = Serialize(jobs', metrics')
          /\ diskTmp' = Partial
          /\ savePc' = "writing"
     ELSE /\ jobs' = <<>>
          /\ metrics' = ZeroMetrics
          /\ UNCHANGED <<saveData, diskTmp, savePc>>
  /\ emitted' = <<>>
  /\ lastOp' = Op("load", "", TRUE)
  /\ UNCHANGED <<processingPrinters, processingLock, saveTimer, diskMain, now,
                 execStarted, execCompleted, enqueueCalls, crashes,
                 crashNonTerminal, crashWindowCompleted, everWritten>>
  /\ UNCHANGED <<svars, mvars>>

(***************************************************************************)
(* SocketClient                                                            *)
(*                                                                         *)
(* client.socket is this.socket with the state of its transport: null,     *)
(* opening, open, or closed.  An attempt is one run of connect() or of     *)
(* _attemptReconnect(): pc is where its 'connect' handler stands, promise  *)
(* the promise it awaits (with its 15 s timeout while pending), own tells  *)
(* that the socket it created is still this.socket with its listeners.     *)
(* Attempts none of whose callbacks can change anything any more are       *)
(* dropped from the list.                                                  *)
(***************************************************************************)
\* how many attempts can have callbacks outstanding at a time
MaxLiveAttempts == 2
\* the cap on reconnectAttempts
MaxAttempts == 8
\* how many printers the orchestrator registers
MaxCache == 2

\* no promise was rejected
NoReject == "none"
\* the errors authenticate() rejects with when the backend refuses: onAuth
\* without success, and onError
AuthRefusals == {"Authentication failed", "Authentication error"}

SocketInit ==
  /\ client = [state |-> "disconnected", manualDisconnect |-> FALSE,
               reconnectTimer |-> FALSE, reconnectAttempts |-> 0, delay |-> 0,
               authenticated |-> FALSE, handlersAttached |-> FALSE,
               handlerSets |-> 0, orphans |-> 0,
               socket |-> "null", registeredPrintersCache |-> <<>>]
  /\ attempts = <<>>
  /\ connectTimer = FALSE
  /\ connectPromise = "none"
  /\ sockEmitted = <<>>
  /\ lost = FALSE
  /\ rejectError = NoReject
  /\ core = [connected |-> FALSE, socket |-> "null", jobsReceived |-> 0]
  /\ reconnection = <<>>
  /\ requests = <<>>

\* _setState: the events it emits are left to the callers' lists
SetState(c, st) == [c EXCEPT !.state = st]

\* socketClient.js:43  this.reconnectDelays, in seconds
ReconnectDelays == <<5, 5, 10, 10, 30, 30, 60>>
\* socketClient.js:44  this.maxReconnectDelay, in seconds
MaxReconnectDelay == 300

\* a delay that stays at the last entry of reconnectDelays
ReconnectDelayClamped(n) == ReconnectDelays[Min(n, Len(ReconnectDelays) - 1) + 1]

\* the delay _scheduleReconnect computes when reconnectAttempts is n
ReconnectDelay(n) ==
  IF n < Len(ReconnectDelays)
  THEN ReconnectDelays[Min(n, Len(ReconnectDelays) - 1) + 1]
  ELSE MaxReconnectDelay

\* the version of _scheduleReconnect without the manualDisconnect check
ScheduleReconnectAlways(c) ==
  IF c.reconnectTimer THEN c
  ELSE [c EXCEPT !.delay = ReconnectDelay(c.reconnectAttempts),
                 !.reconnectAttempts = @ + 1, !.state = "reconnecting",
                 !.reconnectTimer = TRUE]

\* _scheduleReconnect; client.delay is the delay of the timer it arms
ScheduleReconnect(c) ==
  IF c.manualDisconnect \/ c.reconnectTimer THEN c
  ELSE [c EXCEPT !.delay = ReconnectDelay(c.reconnectAttempts),
                 !.reconnectAttempts = @ + 1, !.state = "reconnecting",
                 !.reconnectTimer = TRUE]

ScheduleEvents(c) ==
  IF c.manualDisconnect \/ c.reconnectTimer THEN <<>> ELSE <<"reconnecting">>

\* the steps that call _scheduleReconnect are taken while the counter is
\* below its cap
CanSchedule(c) ==
  c.manualDisconnect \/ c.reconnectTimer \/ c.reconnectAttempts < MaxAttempts

\* the catch block of _attemptReconnect without the next attempt
ReconnectCatchGivesUp(c) == SetState(c, "disconnected")

\* the catch block of _attemptReconnect
ReconnectCatch(c) == ScheduleReconnect(SetState(c, "disconnected"))

CatchEvents(c) == <<"reconnect_failed">> \o ScheduleEvents(c)

\* an attempt none of whose callbacks can change the client any more
Dead(a, c) ==
  /\ a.promise # "pending"
  /\ \/ a.pc \in {"done", "stuck"}
     \/ ~a.own /\ a.pc \in {"connecting", "authenticating"}
     \/ a.pc = "registering" /\ c.socket = "null"

RECURSIVE Live(_, _)
Live(as, c) ==
  IF as = <<>> THEN <<>>
  ELSE IF Dead(Head(as), c) THEN Live(Tail(as), c)
       ELSE <<Head(as)>> \o Live(Tail(as), c)

NewAttempt(kind) ==
  [kind |-> kind, pc |-> "connecting", promise |-> "pending", own |-> TRUE,
   regIdx |-> 0, log |-> <<>>]

\* removeAllListeners() on the old socket: the older attempts lose theirs
Disown(as) == [i \in DOMAIN as |-> [as[i] EXCEPT !.own = FALSE]]

\* the transport of the socket is opening or open
LiveSocket(c) == c.socket \in {"opening", "open"}

\* this.socket = io(...) in connect(): what this.socket held is not touched;
\* client.orphans counts the sockets left live without a reference
NewSocket(c) ==
  [c EXCEPT !.orphans = @ + (IF LiveSocket(c) THEN 1 ELSE 0),
            !.handlerSets = 0, !.socket = "opening"]

\* connect(), called once by PrintClientCore.start() on a new SocketClient
Connect ==
  /\ connectPromise = "none"
  /\ client' = NewSocket([client EXCEPT !.manualDisconnect = FALSE,
                                        !.state = "connecting"])
  /\ attempts' = <<NewAttempt("initial")>>
  /\ connectTimer' = TRUE
  /\ connectPromise' = "pending"
  /\ sockEmitted' = <<"state_change">>
  /\ core' = [core EXCEPT !.socket = "client"]
  /\ rejectError' = NoReject
  /\ reconnection' = <<>>
  /\ UNCHANGED <<lost, qvars, mvars>>
  /\ UNCHANGED requests

\* the promise of attempt i is rejected: connect() sets the state and rejects,
\* _attemptReconnect() runs its catch block if the promise was still pending
RejectAttempt(i, c) ==
  IF attempts[i].kind = "initial" THEN SetState(c, "disconnected")
  ELSE IF attempts[i].promise = "pending" THEN ReconnectCatch(c)
  ELSE c

RejectEvents(i, c) ==
  IF attempts[i].kind = "reconnect" /\ attempts[i].promise = "pending"
  THEN CatchEvents(SetState(c, "disconnected"))
  ELSE <<>>

RejectGuard(i, c) ==
  (attempts[i].kind = "reconnect" /\ attempts[i].promise = "pending")
    => CanSchedule(SetState(c, "disconnected"))

Rejected(i, pc) ==
  [attempts EXCEPT ![i].promise = IF @ = "pending" THEN "rejected" ELSE @,
                   ![i].pc = pc]

RejectConnectPromise(i) ==
  IF attempts[i].kind = "initial" /\ connectPromise = "pending"
  THEN "rejected" ELSE connectPromise

\* a step of an attempt: a message it sends or an event it emits
Sent(msg) == [msg |-> msg, printer |-> ""]

\* register_printer sent for descriptor p
SentRegister(p) == [msg |-> "register_printer", printer |-> p]

\* the transport of the current socket connects: the 'connect' handler of the
\* attempt that created it sets authenticating and sends authenticate
SocketConnected(i) ==
  /\ i \in DOMAIN attempts
  /\ attempts[i].own
  /\ attempts[i].pc = "connecting"
  /\ client.socket = "opening"
  /\ client' = [client EXCEPT !.socket = "open", !.state = "authenticating"]
  /\ attempts' = [attempts EXCEPT ![i].pc = "authenticating",
                                   ![i].log = Append(@, Sent("authenticate"))]
  /\ sockEmitted' = <<"state_change">>
  /\ rejectError' = NoReject
  /\ reconnection' = <<>>
  /\ UNCHANGED <<connectTimer, connectPromise, lost, core, qvars, mvars>>
  /\ UNCHANGED requests

\* 'connect_error' on the current socket
SocketConnectError(i) ==
  /\ i \in DOMAIN attempts
  /\ attempts[i].own
  /\ attempts[i].pc = "connecting"
  /\ client.socket = "opening"
  /\ RejectGuard(i, client)
  /\ LET closed == [client EXCEPT !.socket = "closed"]
     IN  /\ client' = IF attempts[i].kind = "initial"
                      THEN (IF client.state = "connecting"
                            THEN SetState(closed, "disconnected") ELSE closed)
                      ELSE RejectAttempt(i, closed)
         /\ attempts' = Live(Rejected(i, "done"), client')
         /\ sockEmitted' = RejectEvents(i, closed)
  /\ connectPromise' = IF client.state = "connecting"
                       THEN RejectConnectPromise(i) ELSE connectPromise
  /\ rejectError' = IF attempts[i].kind = "initial" /\ client.state # "connecting"
                    THEN NoReject ELSE "Connection error"
  /\ reconnection' = <<>>
  /\ UNCHANGED <<connectTimer, lost, core, qvars, mvars>>
  /\ UNCHANGED requests

\* promise of attempt i resolved (a no-op when it was settled before)
Resolved(i) ==
  [attempts EXCEPT ![i].promise = IF @ = "pending" THEN "resolved" ELSE @,
                   ![i].pc = "done"]

\* the loop of _reRegisterPrinters that stops after the first descriptor
ReRegisterDoneAfterFirst(idx, cache) == idx >= Min(1, Len(cache))

\* the for..of loop of _reRegisterPrinters is over after idx descriptors
ReRegisterDone(idx, cache) == idx >= Len(cache)

\* the 'reconnected' listener of the orchestrator sets its connected flag
OnReconnected(k) == [k EXCEPT !.connected = TRUE]

\* _syncPendingJobs: returns at once without a socket or when not connected,
\* else getAllPendingJobs() sends get_pending_jobs
SyncPendingJobs(k) ==
  IF k.socket = "null" \/ ~k.connected THEN <<>>
  ELSE <<Sent("get_pending_jobs")>>

\* attempt i, having done what is in done, emits reconnected and resolves; the
\* listener of the orchestrator runs inside the emit
EmitReconnected(i, done, c) ==
  /\ attempts' = Live(Resolved(i), c)
  /\ core' = OnReconnected(core)
  /\ reconnection' = done \o <<Sent("reconnected")>>
                          \o SyncPendingJobs(OnReconnected(core))

\* attempt i, having done what is in done, sends register_printer for the
\* next descriptor of the cache and waits
RegisterNext(i, done) ==
  /\ attempts' = [attempts EXCEPT
       ![i].pc = "registering",
       ![i].regIdx = @ + 1,
       ![i].log = Append(done, SentRegister(
                    client.registeredPrintersCache[attempts[i].regIdx + 1]))]
  /\ reconnection' = <<>>
  /\ UNCHANGED core

\* _setupEventHandlers(): client.handlerSets counts the sets of inbound
\* handlers on this.socket
SetupEventHandlers(c) ==
  IF c.handlersAttached THEN c
  ELSE [c EXCEPT !.handlersAttached = TRUE, !.handlerSets = @ + 1]

\* 'authenticated' with success: handlers attached, connected, counter reset;
\* connect() resolves and start() sets its connected flag, _attemptReconnect()
\* goes on to _reRegisterPrinters()
AuthOk(i) ==
  /\ i \in DOMAIN attempts
  /\ attempts[i].own
  /\ attempts[i].pc = "authenticating"
  /\ client.socket = "open"
  /\ client' = [SetupEventHandlers([client EXCEPT !.authenticated = TRUE])
                  EXCEPT !.state = "connected", !.reconnectAttempts = 0]
  /\ LET done == Append(attempts[i].log, Sent("connected"))
     IN  IF attempts[i].kind = "initial"
         THEN /\ attempts' = Live(Resolved(i), client')
              /\ core' = [core EXCEPT !.connected = TRUE]
              /\ reconnection' = <<>>
              /\ sockEmitted' = <<"state_change">>
         ELSE IF ReRegisterDone(0, client.registeredPrintersCache)
         THEN /\ EmitReconnected(i, done, client')
              /\ sockEmitted' = <<"state_change", "reconnected">>
         ELSE /\ RegisterNext(i, done)
              /\ sockEmitted' = <<"state_change">>
  /\ connectPromise' = IF attempts[i].kind = "initial" /\ connectPromise = "pending"
                       THEN "resolved" ELSE connectPromise
  /\ rejectError' = NoReject
  /\ UNCHANGED <<connectTimer, lost, qvars, mvars>>
  /\ UNCHANGED requests

\* authenticate() rejects in attempt i with the Error msg
AuthRejects(i, msg) ==
  /\ RejectGuard(i, client)
  /\ client' = RejectAttempt(i, client)
  /\ attempts' = Live(Rejected(i, "done"), client')
  /\ sockEmitted' = RejectEvents(i, client)
  /\ connectPromise' = RejectConnectPromise(i)
  /\ rejectError' = msg
  /\ reconnection' = <<>>
  /\ UNCHANGED <<connectTimer, lost, core, qvars, mvars>>
  /\ UNCHANGED requests

\* 'auth_error', or 'authenticated' without success
AuthRefused(i, msg) ==
  /\ i \in DOMAIN attempts
  /\ attempts[i].own
  /\ attempts[i].pc = "authenticating"
  /\ client.socket = "open"
  /\ AuthRejects(i, msg)

\* the 10 s timer of authenticate(): cleanup() calls this.socket.off, which
\* throws when this.socket is null; it rejects only if !this.authenticated
AuthTimeout(i) ==
  /\ i \in DOMAIN attempts
  /\ attempts[i].pc = "authenticating"
  /\ IF client.socket # "null" /\ ~client.authenticated
     THEN AuthRejects(i, "Authentication timeout")
     ELSE /\ attempts' = Live([attempts EXCEPT ![i].pc = "stuck"], client)
          /\ sockEmitted' = <<>>
          /\ rejectError' = NoReject
          /\ reconnection' = <<>>
          /\ UNCHANGED <<client, connectTimer, connectPromise, lost, core,
                         requests, qvars, mvars>>

\* a register_printer of _reRegisterPrinters settles (ack, error or 5 s
\* timeout): the next printer, or reconnected is emitted and the promise resolved
RegisterSettles(i) ==
  /\ i \in DOMAIN attempts
  /\ attempts[i].pc = "registering"
  /\ client.socket # "null"
  /\ IF ReRegisterDone(attempts[i].regIdx, client.registeredPrintersCache)
     THEN /\ EmitReconnected(i, attempts[i].log, client)
          /\ sockEmitted' = <<"reconnected">>
     ELSE /\ RegisterNext(i, attempts[i].log)
          /\ sockEmitted' = <<>>
  /\ rejectError' = NoReject
  /\ UNCHANGED <<client, connectTimer, connectPromise, lost, qvars, mvars>>
  /\ UNCHANGED requests

\* the 15 s timer of _attemptReconnect() fires while its promise is pending
AttemptTimeout(i) ==
  /\ i \in DOMAIN attempts
  /\ attempts[i].kind = "reconnect"
  /\ attempts[i].promise = "pending"
  /\ CanSchedule(SetState(client, "disconnected"))
  /\ client' = ReconnectCatch(client)
  /\ attempts' = Live([attempts EXCEPT ![i].promise = "rejected"], client')
  /\ sockEmitted' = CatchEvents(SetState(client, "disconnected"))
  /\ rejectError' = "Reconnection timeout"
  /\ reconnection' = <<>>
  /\ UNCHANGED <<connectTimer, connectPromise, lost, core, qvars, mvars>>
  /\ UNCHANGED requests

\* the 15 s timer of connect() fires: it looks at this.state only
ConnectTimeout ==
  /\ connectTimer
  /\ connectTimer' = FALSE
  /\ IF client.state = "connecting"
     THEN /\ client' = [client EXCEPT !.state = "disconnected",
                                      !.socket = IF @ = "null" THEN @ ELSE "closed"]
          /\ connectPromise' = IF connectPromise = "pending" THEN "rejected"
                               ELSE connectPromise
          /\ attempts' = Live([i \in DOMAIN attempts |->
                                 IF attempts[i].kind = "initial"
                                 THEN [attempts[i] EXCEPT !.promise = "rejected",
                                                          !.pc = "done"]
                                 ELSE attempts[i]], client')
          /\ sockEmitted' = <<"state_change">>
          /\ rejectError' = "Connection timeout"
     ELSE /\ sockEmitted' = <<>>
          /\ rejectError' = NoReject
          /\ UNCHANGED <<client, connectPromise, attempts>>
  /\ reconnection' = <<>>
  /\ UNCHANGED <<lost, core, qvars, mvars>>
  /\ UNCHANGED requests

\* the body of the 'disconnect' handler
OnDisconnect(c) ==
  ScheduleReconnect([c EXCEPT !.authenticated = FALSE, !.state = "disconnected"])

\* the network drops the established socket: the 'disconnect' handler runs
SocketDrop ==
  /\ client.socket = "open"
  /\ client.handlersAttached
  /\ CanSchedule(client)
  /\ client' = [OnDisconnect(client) EXCEPT !.socket = "closed"]
  /\ attempts' = Live(attempts, client')
  /\ sockEmitted' = <<"disconnected">> \o ScheduleEvents(client)
  /\ lost' = TRUE
  /\ core' = [core EXCEPT !.connected = FALSE]
  /\ rejectError' = NoReject
  /\ reconnection' = <<>>
  /\ UNCHANGED <<connectTimer, connectPromise, qvars, mvars>>
  /\ UNCHANGED requests

\* how many calls of _emitWithTimeout a run makes
MaxRequests == 2

\* the request-style emits and the event that acknowledges each
AckEvents ==
  [register_printer |-> "printer_registered", printer_status |-> "status_updated",
   get_pending_jobs |-> "pending_jobs"]

\* a call of _emitWithTimeout: its two listeners are on this.socket, its
\* timer is armed, its promise is pending; calls counts resolve and reject
NewRequest(event, printer) ==
  [event |-> event, printer |-> printer, listening |-> TRUE, timer |-> TRUE,
   outcome |-> "pending", calls |-> 0]

\* resolve(result) or reject(error): only the first call settles the promise
Settle(r, how) ==
  [r EXCEPT !.outcome = IF @ = "pending" THEN how ELSE @, !.calls = @ + 1]

\* _emitWithTimeout(event, data, ackEvent, timeout): without a socket
\* this.socket.emit throws inside the executor and the promise is rejected
EmitWithTimeout(c, rs, event, printer) ==
  IF c.socket = "null"
  THEN Append(rs, Settle([NewRequest(event, printer) EXCEPT
                            !.listening = FALSE, !.timer = FALSE], "rejected"))
  ELSE Append(rs, NewRequest(event, printer))

\* cleanup(): off(ackEvent, onAck), off('error', onError), clearTimeout(timer)
RequestCleanup(r) == [r EXCEPT !.listening = FALSE, !.timer = FALSE]

\* socket.removeAllListeners() on this.socket
RemoveAllListeners(c, rs) ==
  IF c.socket = "null" THEN rs
  ELSE [i \in DOMAIN rs |-> [rs[i] EXCEPT !.listening = FALSE]]

\* an _attemptReconnect that leaves the old socket as it is
ReplaceSocketKeepsOld(c) ==
  [NewSocket(c) EXCEPT !.handlersAttached = FALSE]

\* the head of _attemptReconnect: removeAllListeners() and close() on the old
\* socket, _handlersAttached = false, and a new socket
ReplaceSocket(c) ==
  [c EXCEPT !.handlersAttached = FALSE, !.handlerSets = 0, !.socket = "opening"]

\* the reconnect timer fires: _attemptReconnect() replaces the socket
ReconnectTimerFire ==
  /\ client.reconnectTimer
  /\ IF client.manualDisconnect
     THEN /\ client' = [client EXCEPT !.reconnectTimer = FALSE]
          /\ sockEmitted' = <<>>
          /\ UNCHANGED <<attempts, requests>>
     ELSE /\ client' = ReplaceSocket([client EXCEPT !.reconnectTimer = FALSE,
                                                    !.state = "connecting"])
          /\ requests' = RemoveAllListeners(client, requests)
          /\ Len(Live(Disown(attempts), client')) < MaxLiveAttempts
          /\ attempts' = Append(Live(Disown(attempts), client'),
                                NewAttempt("reconnect"))
          /\ sockEmitted' = <<"state_change">>
  /\ rejectError' = NoReject
  /\ reconnection' = <<>>
  /\ UNCHANGED <<connectTimer, connectPromise, lost, core, qvars, mvars>>

\* the fields of the client after disconnect()
Disconnected(c) ==
  [c EXCEPT !.manualDisconnect = TRUE, !.reconnectTimer = FALSE,
            !.socket = "null", !.handlerSets = 0, !.authenticated = FALSE,
            !.state = "disconnected"]

\* disconnect(), called once by PrintClientCore.stop()
Disconnect ==
  /\ connectPromise # "none"
  /\ ~client.manualDisconnect
  /\ client' = Disconnected(client)
  /\ attempts' = Live(Disown(attempts), client')
  /\ requests' = RemoveAllListeners(client, requests)
  /\ sockEmitted' = <<>>
  /\ core' = [core EXCEPT !.connected = FALSE, !.socket = "null"]
  /\ rejectError' = NoReject
  /\ reconnection' = <<>>
  /\ UNCHANGED <<connectTimer, connectPromise, lost, qvars, mvars>>

\* registerPrinter(): the descriptor goes into the cache, replacing the one of
\* the same systemName
CachePut(cache, p) ==
  IF \E i \in DOMAIN cache : cache[i] = p THEN cache ELSE Append(cache, p)

\* the orchestrator registers a printer while it is connected
RegisterPrinter(p) ==
  /\ client.state = "connected"
  /\ Len(CachePut(client.registeredPrintersCache, p)) <= MaxCache
  /\ CachePut(client.registeredPrintersCache, p) # client.registeredPrintersCache
  /\ Len(requests) < MaxRequests
  /\ client' = [client EXCEPT !.registeredPrintersCache = CachePut(@, p)]
  /\ requests' = EmitWithTimeout(client, requests, "register_printer", p)
  /\ sockEmitted' = <<>>
  /\ rejectError' = NoReject
  /\ reconnection' = <<>>
  /\ UNCHANGED <<attempts, connectTimer, connectPromise, lost, core, qvars, mvars>>

\* updatePrinterStatus() or getAllPendingJobs(), called by the orchestrator
\* while it is connected
Request(event) ==
  /\ client.state = "connected"
  /\ Len(requests) < MaxRequests
  /\ requests' = EmitWithTimeout(client, requests, event, "")
  /\ sockEmitted' = <<>>
  /\ rejectError' = NoReject
  /\ reconnection' = <<>>
  /\ UNCHANGED <<client, attempts, connectTimer, connectPromise, lost, core,
                 qvars, mvars>>

\* the event ack arrives on the socket: onAck of every request that listens
\* for it runs cleanup() and resolves
AckArrives(ack) ==
  /\ client.socket = "open"
  /\ \E i \in DOMAIN requests :
       requests[i].listening /\ AckEvents[requests[i].event] = ack
  /\ requests' = [i \in DOMAIN requests |->
                    IF requests[i].listening /\ AckEvents[requests[i].event] = ack
                    THEN Settle(RequestCleanup(requests[i]), "resolved")
                    ELSE requests[i]]
  /\ sockEmitted' = <<>>
  /\ rejectError' = NoReject
  /\ reconnection' = <<>>
  /\ UNCHANGED <<client, attempts, connectTimer, connectPromise, lost, core,
                 qvars, mvars>>

\* an 'error' event arrives on the socket: onError of every request that
\* listens runs cleanup() and rejects
ErrorArrives ==
  /\ client.socket = "open"
  /\ \E i \in DOMAIN requests : requests[i].listening
  /\ requests' = [i \in DOMAIN requests |->
                    IF requests[i].listening
                    THEN Settle(RequestCleanup(requests[i]), "rejected")
                    ELSE requests[i]]
  /\ sockEmitted' = <<>>
  /\ rejectError' = "Socket error"
  /\ reconnection' = <<>>
  /\ UNCHANGED <<client, attempts, connectTimer, connectPromise, lost, core,
                 qvars, mvars>>

\* the timer of request i fires: cleanup() calls this.socket.off, which throws
\* when this.socket is null, and then reject is never reached
RequestTimeout(i) ==
  /\ i \in DOMAIN requests
  /\ requests[i].timer
  /\ requests' = [requests EXCEPT ![i] =
                    IF client.socket = "null" THEN [@ EXCEPT !.timer = FALSE]
                    ELSE Settle(RequestCleanup(@), "rejected")]
  /\ sockEmitted' = <<>>
  /\ rejectError' = IF client.socket = "null" THEN NoReject ELSE "timeout"
  /\ reconnection' = <<>>
  /\ UNCHANGED <<client, attempts, connectTimer, connectPromise, lost, core,
                 qvars, mvars>>

\* how many new_print_job events the backend sends
MaxInbound == 2

\* new_print_job arrives on this.socket: every set of inbound handlers on it
\* emits new_print_job, and the listener of the orchestrator counts the job
\* and hands it to the queue each time
InboundJob ==
  /\ client.socket = "open"
  /\ client.handlersAttached
  /\ core.jobsReceived < MaxInbound
  /\ sockEmitted' = [k \in 1..client.handlerSets |-> "new_print_job"]
  /\ core' = [core EXCEPT !.jobsReceived = @ + client.handlerSets]
  /\ rejectError' = NoReject
  /\ reconnection' = <<>>
  /\ UNCHANGED <<client, attempts, connectTimer, connectPromise, lost, requests,
                 qvars, mvars>>

\* the socket session of one SocketClient
NextSocket ==
  \/ Connect
  \/ \E i \in 1..MaxLiveAttempts : SocketConnected(i)
  \/ \E i \in 1..MaxLiveAttempts : SocketConnectError(i)
  \/ \E i \in 1..MaxLiveAttempts : AuthOk(i)
  \/ \E i \in 1..MaxLiveAttempts, msg \in AuthRefusals : AuthRefused(i, msg)
  \/ \E i \in 1..MaxLiveAttempts : AuthTimeout(i)
  \/ \E i \in 1..MaxLiveAttempts : RegisterSettles(i)
  \/ \E i \in 1..MaxLiveAttempts : AttemptTimeout(i)
  \/ ConnectTimeout
  \/ SocketDrop
  \/ ReconnectTimerFire
  \/ Disconnect
  \/ \E p \in Printers : RegisterPrinter(p)

(***************************************************************************)
(* SpoolerMonitor                                                          *)
(*                                                                         *)
(* A session is one call of monitor(): its closure (sawPrinting,           *)
(* lastHadError, the interval it created) and, for the properties, what it *)
(* saw in the spooler (lastObs, everPrinting, condition) and what it told  *)
(* its callback (calls).  The                                              *)
(* orchestrator calls monitor() from the execute callback of the queue,    *)
(* so a printer has one session at a time.  The interval fires every 2 s;  *)
(* ticks counts its firings.                                               *)
(***************************************************************************)
\* how many calls of monitor() a run makes
MaxSessions == 2
\* spoolerMonitor.js:26  maxPollTime / pollInterval: the last firing that still
\* polls (60), scaled down
MaxPollTicks == 3

\* the osJobId of the Electron print path, which has none
NoJobId == "none"
OsJobIds == {"7"}

\* printer.getJob threw or returned nothing
Missing == {"missing"}
\* spoolerMonitor.js:130  the statuses of a printer in trouble
ErrorStates == {"BLOCKED", "ERROR", "OFFLINE", "PAPEROUT", "PAPER_OUT"}
\* what a poll can find: the status array of the job, or no job
Observations ==
  { {"PENDING"}, {"PRINTING"}, {"PAPEROUT"}, {"PRINTING", "BLOCKED"},
    {"PRINTED"}, {"CANCELLED"}, {"ABORTED"}, Missing }

\* onStatusChange(status, {hasError})
Call(status, hasError) == [status |-> status, hasError |-> hasError]

FreeSession ==
  [started |-> FALSE, printer |-> "", osJobId |-> NoJobId, interval |-> FALSE,
   timer |-> FALSE, ticks |-> 0, sawPrinting |-> FALSE, lastHadError |-> FALSE,
   lastObs |-> {}, everPrinting |-> FALSE, condition |-> "none",
   calls |-> <<>>, cancelled |-> FALSE, concurrent |-> FALSE]

MonitorInit ==
  /\ sessions = [s \in 1..MaxSessions |-> FreeSession]
  /\ activeJobs = <<>>

\* const jobKey = `${printerName}:${osJobId}`
JobKey(printer, osJobId) == <<printer, osJobId>>

\* the session has a timer or an interval that can still fire
Monitoring(x) == x.interval \/ x.timer

\* a _cleanup that forgets the entry but leaves its interval running
CleanupKeepsInterval(ss, aj, key) ==
  [sessions |-> ss,
   activeJobs |-> [k \in DOMAIN aj \ {key} |-> aj[k]]]

\* _cleanup(jobKey): clear the interval the entry holds and delete the entry
Cleanup(ss, aj, key) ==
  IF key \in DOMAIN aj
  THEN [sessions |-> [ss EXCEPT ![aj[key]].interval = FALSE],
        activeJobs |-> [k \in DOMAIN aj \ {key} |-> aj[k]]]
  ELSE [sessions |-> ss, activeJobs |-> aj]

\* monitor(printerName, osJobId, onStatusChange), called by the execute
\* callback of a job the queue has started on that printer
Monitor(s, printer, osJobId) ==
  /\ ~sessions[s].started
  /\ \A o \in 1..MaxSessions : sessions[o].started => o < s
  /\ \A o \in 1..MaxSessions : Monitoring(sessions[o]) => sessions[o].printer # printer
  /\ LET x == [FreeSession EXCEPT
                 !.started = TRUE, !.printer = printer, !.osJobId = osJobId,
                 !.concurrent = \E o \in 1..MaxSessions : Monitoring(sessions[o])]
     IN  IF osJobId = NoJobId
         THEN /\ sessions' = [sessions EXCEPT ![s] = [x EXCEPT !.timer = TRUE]]
              /\ UNCHANGED activeJobs
         ELSE /\ sessions' = [sessions EXCEPT ![s] = [x EXCEPT !.interval = TRUE]]
              /\ activeJobs' =
                   [k \in DOMAIN activeJobs \cup {JobKey(printer, osJobId)} |->
                      IF k = JobKey(printer, osJobId) THEN s ELSE activeJobs[k]]
  /\ UNCHANGED <<qvars, svars>>

\* the 500 ms timeout of a session without osJobId
NoJobIdTimer(s) ==
  /\ sessions[s].timer
  /\ sessions' = [sessions EXCEPT
                    ![s].timer = FALSE,
                    ![s].calls = Append(@, Call("completed", FALSE))]
  /\ UNCHANGED <<activeJobs, qvars, svars>>

\* the job is gone and only sawPrinting decides
MissingOutcomeIgnoresError(x) ==
  IF x.sawPrinting THEN "completed" ELSE "failed"

\* what a session reports when the job is no longer in the spooler
MissingOutcome(x) ==
  IF x.sawPrinting /\ ~x.lastHadError THEN "completed" ELSE "failed"

\* a timeout test that lets one more firing poll
TimedOutOneLate(x) == x.ticks + 1 > MaxPollTicks + 1

\* Date.now() - startTime > this.maxPollTime, at the firing after x.ticks others
TimedOut(x) == x.ticks + 1 > MaxPollTicks

\* a firing that ends the session: _cleanup, then the terminal callback
EndSession(s, x, status) ==
  LET c == Cleanup([sessions EXCEPT ![s] = x], activeJobs,
                   JobKey(x.printer, x.osJobId))
  IN  /\ sessions' = [c.sessions EXCEPT ![s].calls = Append(@, Call(status, FALSE))]
      /\ activeJobs' = c.activeJobs

\* a firing after which the session goes on polling
KeepPolling(s, x) ==
  /\ sessions' = [sessions EXCEPT ![s] = x]
  /\ UNCHANGED activeJobs

\* what the spooler has shown of the job so far, after a poll that found o:
\* whether PRINTING was ever among its statuses, and whether the last poll
\* that showed PRINTING or an error state showed an error state
Observe(x, o) ==
  [x EXCEPT !.lastObs = o,
            !.everPrinting = @ \/ "PRINTING" \in o,
            !.condition = IF o \cap {"BLOCKED", "ERROR", "OFFLINE", "PAPEROUT"} # {}
                          THEN "error"
                          ELSE IF "PRINTING" \in o THEN "printing" ELSE @]

\* one firing of the interval of session s, the poll finding o
Tick(s, o) ==
  /\ sessions[s].interval
  /\ LET x == [sessions[s] EXCEPT !.ticks = @ + 1]
         y == Observe(x, o)
     IN  IF TimedOut(sessions[s])
         THEN EndSession(s, [x EXCEPT !.lastObs = {}], "completed")
         ELSE IF o = Missing THEN EndSession(s, y, MissingOutcome(y))
         ELSE IF "PRINTED" \in o THEN EndSession(s, y, "completed")
         ELSE IF "CANCELLED" \in o THEN EndSession(s, y, "failed")
         ELSE IF "ABORTED" \in o THEN EndSession(s, y, "failed")
         ELSE IF o \cap ErrorStates # {}
         THEN KeepPolling(s, [y EXCEPT !.lastHadError = TRUE,
                                      !.calls = Append(@, Call("printing", TRUE))])
         ELSE IF "PRINTING" \in o
         THEN KeepPolling(s, [y EXCEPT !.sawPrinting = TRUE, !.lastHadError = FALSE,
                                      !.calls = Append(@, Call("printing", FALSE))])
         ELSE KeepPolling(s, y)
  /\ UNCHANGED <<qvars, svars>>

\* the function monitor() returned is called: _cleanup(jobKey), or nothing for
\* a session without osJobId
CancelMonitor(s) ==
  /\ sessions[s].started
  /\ Monitoring(sessions[s])
  /\ IF sessions[s].osJobId = NoJobId
     THEN /\ sessions' = [sessions EXCEPT ![s].cancelled = TRUE]
          /\ UNCHANGED activeJobs
     ELSE LET c == Cleanup(sessions, activeJobs,
                           JobKey(sessions[s].printer, sessions[s].osJobId))
          IN  /\ sessions' = [c.sessions EXCEPT ![s].cancelled = TRUE]
              /\ activeJobs' = c.activeJobs
  /\ UNCHANGED <<qvars, svars>>

\* destroy(): _cleanup for every key of activeJobs
Destroy ==
  /\ activeJobs # <<>>
  /\ sessions' = [s \in 1..MaxSessions |->
                    IF \E k \in DOMAIN activeJobs : activeJobs[k] = s
                    THEN [sessions[s] EXCEPT !.interval = FALSE, !.cancelled = TRUE]
                    ELSE sessions[s]]
  /\ activeJobs' = <<>>
  /\ UNCHANGED <<qvars, svars>>

NextMonitor ==
  \/ \E s \in 1..MaxSessions, p \in Printers, id \in OsJobIds \cup {NoJobId} :
       Monitor(s, p, id)
  \/ \E s \in 1..MaxSessions : NoJobIdTimer(s)
  \/ \E s \in 1..MaxSessions, o \in Observations : Tick(s, o)
  \/ \E s \in 1..MaxSessions : CancelMonitor(s)
  \/ Destroy

(***************************************************************************)
(* The queue as a state machine                                            *)
(***************************************************************************)
\* a fresh installation: no file on disk; the constructor's load() finds
\* nothing
Init ==
  /\ jobs = <<>>
  /\ processingPrinters = {}
  /\ processingLock = FALSE
  /\ saveTimer = FALSE
  /\ metrics = ZeroMetrics
  /\ diskMain = Absent
  /\ diskTmp = Absent
  /\ savePc = "idle"
  /\ saveData = Absent
  /\ raw = Absent
  /\ phase = "running"
  /\ now = 0
  /\ emitted = <<>>
  /\ lastOp = Op("init", "", TRUE)
  /\ execStarted = [id \in Ids |-> 0]
  /\ execCompleted = [id \in Ids |-> 0]
  /\ enqueueCalls = 0
  /\ crashes = 0
  /\ crashNonTerminal = {}
  /\ crashWindowCompleted = {}
  /\ everWritten = FALSE
  /\ SocketInit
  /\ MonitorInit

\* what the backend delivers: J1 and J2 share printer P1, J2 can also come
\* for P2, and a job can come without printerSystemName
Deliveries ==
  { [id |-> "J1", printer |-> "P1", priority |-> "normal", ttl |-> 0],
    [id |-> "J2", printer |-> "P1", priority |-> "urgent", ttl |-> 1],
    [id |-> "J2", printer |-> "P2", priority |-> "normal", ttl |-> 0],
    [id |-> "J1", printer |-> NoPrinter, priority |-> "normal", ttl |-> 0] }

\* the queue in one process run; the files are not read while it runs
Next ==
  \/ \E d \in Deliveries : Enqueue(d.id, d.printer, d.priority, d.ttl)
  \/ \E i \in 1..Cardinality(Ids) : ExecSucceed(i)
  \/ \E i \in 1..Cardinality(Ids), msg \in ExecErrors : ExecFail(i, msg)
  \/ RetryTick
  \/ ExpireTick
  \/ \E id \in Ids : CancelJob(id)
  \/ \E t \in 1..MaxTime : AdvanceTime(t)

Spec == Init /\ [][Next]_vars

\* what the backend delivers in the runs with crashes
CrashDeliveries ==
  { [id |-> "J1", printer |-> "P1", priority |-> "normal", ttl |-> 1],
    [id |-> "J2", printer |-> "P1", priority |-> "normal", ttl |-> 0] }

\* the queue with its files, across crashes and restarts
NextCrash ==
  \/ \E d \in CrashDeliveries : Enqueue(d.id, d.printer, d.priority, d.ttl)
  \/ \E i \in 1..Cardinality(Ids) : ExecSucceed(i)
  \/ \E i \in 1..Cardinality(Ids), msg \in ExecErrors : ExecFail(i, msg)
  \/ \E t \in 1..MaxTime : AdvanceTime(t)
  \/ SaveTimerFire
  \/ SaveWriteDone
  \/ SaveRename
  \/ SaveFails
  \/ Crash
  \/ Load

SpecCrash == Init /\ [][NextCrash]_vars

SpecSocket == Init /\ [][NextSocket]_vars

\* the session with the jobs the backend pushes
NextInbound ==
  \/ NextSocket
  \/ InboundJob

SpecInbound == Init /\ [][NextInbound]_vars

\* the session with the request-style emits of the orchestrator, every
\* connection attempt succeeding
NextRequest ==
  \/ Connect
  \/ \E i \in 1..MaxLiveAttempts : SocketConnected(i)
  \/ \E i \in 1..MaxLiveAttempts : AuthOk(i)
  \/ \E i \in 1..MaxLiveAttempts : RegisterSettles(i)
  \/ SocketDrop
  \/ ReconnectTimerFire
  \/ Disconnect
  \/ \E p \in Printers : RegisterPrinter(p)
  \/ \E event \in {"printer_status", "get_pending_jobs"} : Request(event)
  \/ \E event \in DOMAIN AckEvents : AckArrives(AckEvents[event])
  \/ ErrorArrives
  \/ \E i \in 1..MaxRequests : RequestTimeout(i)

SpecRequest == Init /\ [][NextRequest]_vars

SpecMonitor == Init /\ [][NextMonitor]_vars

\* one session at a time, from monitor() to its end
NextMonitorOne ==
  \/ \E p \in Printers, id \in OsJobIds \cup {NoJobId} : Monitor(1, p, id)
  \/ NoJobIdTimer(1)
  \/ \E o \in Observations : Tick(1, o)
  \/ CancelMonitor(1)
  \/ Destroy

\* setInterval keeps firing until it is cleared, and the 500 ms setTimeout
\* fires
SpecMonitorLive ==
  /\ Init
  /\ [][NextMonitorOne]_vars
  /\ WF_vars(\E o \in Observations : Tick(1, o))
  /\ WF_vars(NoJobIdTimer(1))

\* what the backend delivers in the runs that follow the retries to their end
RetryDeliveries ==
  { [id |-> "J1", printer |-> "P1", priority |-> "normal", ttl |-> 0],
    [id |-> "J2", printer |-> "P1", priority |-> "normal", ttl |-> 0] }

\* the queue over the whole retry schedule of its entries
NextRetry ==
  \/ \E d \in RetryDeliveries : Enqueue(d.id, d.printer, d.priority, d.ttl)
  \/ \E i \in 1..Cardinality(Ids) : ExecSucceed(i)
  \/ \E i \in 1..Cardinality(Ids), msg \in ExecErrors : ExecFail(i, msg)
  \/ RetryTick
  \/ \E id \in Ids : CancelJob(id)
  \/ WaitForRetry

SpecRetry == Init /\ [][NextRetry]_vars

\* the printers PrintClientCore has neither registered nor detected
Unregistered == {"P1"}

\* a job with a ttl of one unit for a printer that is not registered, and a job
\* for a printer that is
ExpiryDeliveries ==
  { [id |-> "J1", printer |-> "P1", priority |-> "normal", ttl |-> 1],
    [id |-> "J2", printer |-> "P2", priority |-> "normal", ttl |-> 0] }

\* the execute callback throws for a printer it does not find
ExecFailUnregistered(i) ==
  /\ i \in DOMAIN jobs
  /\ jobs[i].printerSystemName \in Unregistered
  /\ ExecFail(i, "Printer not found")

\* the execute callback of a job whose printer is found settles either way
ExecSettlesRegistered(i) ==
  /\ i \in DOMAIN jobs
  /\ jobs[i].printerSystemName \notin Unregistered
  /\ \/ ExecSucceed(i)
     \/ \E msg \in ExecErrors : ExecFail(i, msg)

\* the queue from startRetryTimer to the expiration ticks
NextExpiry ==
  \/ \E d \in ExpiryDeliveries : Enqueue(d.id, d.printer, d.priority, d.ttl)
  \/ \E i \in 1..Cardinality(Ids) : ExecFailUnregistered(i)
  \/ \E i \in 1..Cardinality(Ids) : ExecSettlesRegistered(i)
  \/ RetryTick
  \/ WaitForRetry
  \/ WaitForExpiration
  \/ ExpireTickDue

SpecExpiry == Init /\ [][NextExpiry]_vars

\* the jobs whose documentType is none of the cases of executePrintJob
Unsupported == {"J2"}

\* a job without printerSystemName, a job of an unsupported documentType, and a
\* job that is in order
ValidationDeliveries ==
  { [id |-> "J1", printer |-> NoPrinter, priority |-> "normal", ttl |-> 0],
    [id |-> "J2", printer |-> "P1", priority |-> "normal", ttl |-> 0],
    [id |-> "J1", printer |-> "P1", priority |-> "normal", ttl |-> 0] }

\* executePrintJob throws from the default case of its switch
ExecFailUnsupported(i) ==
  /\ i \in DOMAIN jobs
  /\ jobs[i].id \in Unsupported
  /\ ExecFail(i, "Unsupported document type")

\* the execute callback of a job of a supported documentType settles either way
ExecSettlesSupported(i) ==
  /\ i \in DOMAIN jobs
  /\ jobs[i].id \notin Unsupported
  /\ \/ ExecSucceed(i)
     \/ \E msg \in ExecErrors : ExecFail(i, msg)

\* the queue when the backend delivers jobs that do not pass validation
NextValidation ==
  \/ \E d \in ValidationDeliveries : Enqueue(d.id, d.printer, d.priority, d.ttl)
  \/ \E i \in 1..Cardinality(Ids) : ExecFailUnsupported(i)
  \/ \E i \in 1..Cardinality(Ids) : ExecSettlesSupported(i)
  \/ RetryTick
  \/ WaitForRetry

SpecValidation == Init /\ [][NextValidation]_vars

(***************************************************************************)
(* The execute callback of the orchestrator: print, then wait for the      *)
(* spooler monitor                                                         *)
(***************************************************************************)
PrintDeliveries ==
  { [id |-> "J1", printer |-> "P1", priority |-> "normal", ttl |-> 0],
    [id |-> "J2", printer |-> "P1", priority |-> "normal", ttl |-> 0] }

\* every invocation of the execute callback calls monitor() once, and the
\* jobs of one printer run one after the other: the session of the invocation
\* in flight is the one with the number of that invocation
SessionInFlight == execStarted["J1"] + execStarted["J2"]

\* the terminal status the callback of session x was called with, if any
Verdict(x) ==
  IF \E k \in DOMAIN x.calls : x.calls[k].status \in {"completed", "failed"}
  THEN x.calls[Len(x.calls)].status
  ELSE "none"

\* executePrintJob has returned osJobId and the callback calls monitor()
ExecMonitors(i, osJobId) ==
  /\ Running
  /\ i \in DOMAIN jobs
  /\ jobs[i].status = "processing"
  /\ SessionInFlight \in 1..MaxSessions
  /\ Monitor(SessionInFlight, jobs[i].printerSystemName, osJobId)

\* the monitor has called back with completed or with failed: updateJobStatus,
\* done(), and the promise of the execute callback resolves
ExecMonitorReports(i) ==
  /\ SessionInFlight \in 1..MaxSessions
  /\ Verdict(sessions[SessionInFlight]) \in {"completed", "failed"}
  /\ ExecSucceed(i)

\* the 150 s safety timer fires for a session that was stopped without a
\* terminal callback: done(), and the promise resolves
ExecSafetyTimeout(i) ==
  /\ SessionInFlight \in 1..MaxSessions
  /\ sessions[SessionInFlight].started
  /\ Verdict(sessions[SessionInFlight]) = "none"
  /\ ~Monitoring(sessions[SessionInFlight])
  /\ ExecSucceed(i)

\* the queue with the execute callback of the orchestrator as its executor
NextPrint ==
  \/ \E d \in PrintDeliveries : Enqueue(d.id, d.printer, d.priority, d.ttl)
  \/ \E i \in 1..Cardinality(Ids), id \in OsJobIds \cup {NoJobId} :
       ExecMonitors(i, id)
  \/ \E s \in 1..MaxSessions : NoJobIdTimer(s)
  \/ \E s \in 1..MaxSessions, o \in Observations : Tick(s, o)
  \/ Destroy
  \/ \E i \in 1..Cardinality(Ids) : ExecMonitorReports(i)
  \/ \E i \in 1..Cardinality(Ids) : ExecSafetyTimeout(i)

SpecPrint == Init /\ [][NextPrint]_vars

\* the deliveries of a job that no attempt can print, for either printer
FailingDeliveries ==
  { [id |-> "J1", printer |-> "P1", priority |-> "normal", ttl |-> 0],
    [id |-> "J1", printer |-> "P2", priority |-> "urgent", ttl |-> 0] }

\* the executor fails on every attempt and nobody cancels
NextFailing ==
  \/ \E d \in FailingDeliveries : Enqueue(d.id, d.printer, d.priority, d.ttl)
  \/ \E i \in 1..Cardinality(Ids), msg \in ExecErrors : ExecFail(i, msg)
  \/ RetryTick
  \/ WaitForRetry

\* the retry interval keeps firing, time passes, and the executor settles
SpecFailing ==
  /\ Init
  /\ [][NextFailing]_vars
  /\ WF_vars(RetryTick)
  /\ WF_vars(WaitForRetry)
  /\ WF_vars(\E i \in 1..Cardinality(Ids), msg \in ExecErrors : ExecFail(i, msg))

\* every executor call settles, one way or the other, the retry interval keeps
\* firing and time passes
NextSettling ==
  \/ \E d \in RetryDeliveries : Enqueue(d.id, d.printer, d.priority, d.ttl)
  \/ \E i \in 1..Cardinality(Ids) : ExecSucceed(i)
  \/ \E i \in 1..Cardinality(Ids), msg \in ExecErrors : ExecFail(i, msg)
  \/ RetryTick
  \/ WaitForRetry

SpecSettling ==
  /\ Init
  /\ [][NextSettling]_vars
  /\ WF_vars(RetryTick)
  /\ WF_vars(WaitForRetry)
  /\ WF_vars(\E i \in 1..Cardinality(Ids) :
               ExecSucceed(i) \/ \E msg \in ExecErrors : ExecFail(i, msg))

(***************************************************************************)
(* Properties                                                              *)
(***************************************************************************)
ProcessingOn(p) ==
  {i \in DOMAIN jobs : jobs[i].printerSystemName = p /\ jobs[i].status = "processing"}

\* C1: for every printer, at most one entry of that printer is processing
C1_OneProcessingPerPrinter ==
  \A p \in Printers : Cardinality(ProcessingOn(p)) <= 1

\* two entries of one printer, one in the executor and the other queued and due
C1_Witness ==
  \E i, k \in DOMAIN jobs :
    /\ i # k
    /\ jobs[i].printerSystemName = jobs[k].printerSystemName
    /\ jobs[i].status = "processing"
    /\ jobs[k].status = "queued"
    /\ jobs[k].nextRetry = NoTime

\* C2: a delivery of job J while J's entry is queued or processing returns
\* false, emits job-deduplicated{id: J}, adds no entry and does not invoke the
\* executor
C2_DuplicateDelivery ==
  [][\A d \in Deliveries :
       (/\ d.printer # NoPrinter
        /\ \E i \in DOMAIN jobs :
             jobs[i].id = d.id /\ jobs[i].status \in {"queued", "processing"}
        /\ enqueueCalls' = enqueueCalls + 1
        /\ lastOp'.id = d.id
        /\ lastOp'.printer = d.printer)
       => /\ lastOp' = OpOn("enqueue", d.id, d.printer, FALSE)
          /\ emitted' = <<Ev("job-deduplicated", d.id)>>
          /\ jobs' = jobs
          /\ execStarted' = execStarted]_vars

\* a delivery was just deduplicated while the job is in the executor
C2_Witness ==
  /\ lastOp.name = "enqueue"
  /\ ~lastOp.ret
  /\ emitted = <<Ev("job-deduplicated", lastOp.id)>>
  /\ \E i \in DOMAIN jobs : jobs[i].id = lastOp.id /\ jobs[i].status = "processing"

\* C3: the executor completes successfully at most once for a job id
C3_PrintedAtMostOnce ==
  \A id \in Ids : execCompleted[id] <= 1

\* C4: no two entries of the queue have the same id
C4_UniqueIds ==
  \A i, k \in DOMAIN jobs : jobs[i].id = jobs[k].id => i = k

\* an enqueue was just accepted for an id the executor had already completed:
\* the old terminal entry was replaced
C4_Witness ==
  /\ lastOp.name = "enqueue"
  /\ lastOp.ret
  /\ execCompleted[lastOp.id] >= 1
  /\ \E i \in DOMAIN jobs : jobs[i].id = lastOp.id /\ jobs[i].status # "completed"

\* C5: the status of a terminal entry never changes, except that an accepted
\* enqueue of its id replaces the entry
C5_TerminalIsFinal ==
  [][\A i \in DOMAIN jobs :
       jobs[i].status \in TerminalStatuses =>
         \/ /\ enqueueCalls' = enqueueCalls + 1
            /\ lastOp'.name = "enqueue"
            /\ lastOp'.id = jobs[i].id
            /\ lastOp'.ret
         \/ \A k \in DOMAIN jobs' :
              jobs'[k].id = jobs[i].id => jobs'[k].status = jobs[i].status]_vars

\* the ids that the snapshot read by load() holds as queued or processing and
\* that are not past expiresAt at the reload
SnapshotLive(data, t) ==
  {data.jobs[i].id : i \in {k \in DOMAIN data.jobs :
      /\ data.jobs[k].status \in {"queued", "processing"}
      /\ ~(data.jobs[k].expiresAt # 0 /\ data.jobs[k].expiresAt < t)}}

\* C6, as stated: after a crash and the reload, the non-terminal ids are the
\* ids that were non-terminal in memory at the crash, minus those that
\* completed in the window before the crash
C6_ReloadKeepsMemory ==
  lastOp.name = "load" =>
    NonTerminalIds(jobs) = crashNonTerminal \ crashWindowCompleted

\* C6, amended: after a crash and the reload, the non-terminal ids are the ids
\* that are queued or processing in the snapshot that load() read from disk,
\* minus those whose expiresAt has passed at the reload; without a readable
\* snapshot the queue is empty
C6_ReloadKeepsSnapshot ==
  lastOp.name = "load" =>
    IF raw.kind = "full"
    THEN NonTerminalIds(jobs) = SnapshotLive(raw, now)
    ELSE jobs = <<>>

\* a reload that demoted a processing entry past its expiresAt and expired it
C6_Witness ==
  /\ lastOp.name = "load"
  /\ raw.kind = "full"
  /\ \E i \in DOMAIN raw.jobs :
       /\ raw.jobs[i].status = "processing"
       /\ jobs[i].status = "expired"
  /\ crashNonTerminal # NonTerminalIds(jobs)

\* C7: once a save has written a complete snapshot, a crash at any point
\* leaves files from which load() reads a complete snapshot
C7_CrashLeavesSnapshot ==
  (phase = "crashed" /\ everWritten) =>
    ReadStore(diskMain, diskTmp).kind = "full"

\* a reconnection attempt whose promise is not settled yet
AttemptInFlight ==
  \E i \in DOMAIN attempts :
    attempts[i].kind = "reconnect" /\ attempts[i].promise = "pending"

\* C8: once an established session was lost by a disconnect that was not
\* operator-initiated, whenever the state is not connected and disconnect() has
\* not been called, a reconnect timer is pending or a reconnection attempt is
\* in flight
C8_NeverGivesUp ==
  (lost /\ client.state # "connected" /\ ~client.manualDisconnect)
    => (client.reconnectTimer \/ AttemptInFlight)

\* an attempt of a lost session has just failed, not the first one in a row,
\* and the next one is scheduled
C8_Witness ==
  /\ lost
  /\ ~client.manualDisconnect
  /\ client.reconnectAttempts >= 2
  /\ sockEmitted = <<"reconnect_failed", "reconnecting">>
  /\ client.reconnectTimer

\* C9: after the initial connect() has failed the session reconnects by
\* itself: unless it is connected, a reconnect timer is pending or a
\* reconnection attempt is in flight
C9_InitialFailureReconnects ==
  (connectPromise = "rejected" /\ ~client.manualDisconnect)
    => (client.state = "connected" \/ client.reconnectTimer \/ AttemptInFlight)

\* C10: after disconnect() the state is disconnected and no reconnect timer
\* is pending, whatever callbacks of earlier attempts still run
C10_ManualDisconnectIsFinal ==
  client.manualDisconnect
    => (client.state = "disconnected" /\ ~client.reconnectTimer)

\* disconnect() was called while an attempt was in flight, and the 15 s timer
\* of that attempt has just run its catch block
C10_Witness ==
  /\ client.manualDisconnect
  /\ sockEmitted = <<"reconnect_failed">>

\* C11: when the backend refuses the authentication (auth_error, or
\* authenticated without success), on the initial connect or on a reconnection
\* attempt, the session is left disconnected and no further attempt is scheduled
C11_AuthRefusalStops ==
  [][rejectError' \in AuthRefusals
       => (client'.state = "disconnected" /\ ~client'.reconnectTimer)]_vars

\* register_printer for every descriptor of the cache, in insertion order
ReRegisterAll(cache) == [k \in 1..Len(cache) |-> SentRegister(cache[k])]

\* C12: a reconnection that completes has authenticated, set the state
\* connected, sent register_printer once for every cached descriptor in
\* insertion order, then emitted reconnected, and the orchestrator has sent
\* get_pending_jobs once, after reconnected
C12_ReconnectionOrder ==
  reconnection # <<>>
    => reconnection = <<Sent("authenticate"), Sent("connected")>>
                        \o ReRegisterAll(client.registeredPrintersCache)
                        \o <<Sent("reconnected"), Sent("get_pending_jobs")>>

\* a reconnection has just completed with two printers in the cache
C12_Witness ==
  /\ reconnection # <<>>
  /\ Len(client.registeredPrintersCache) = 2
  /\ sockEmitted = <<"reconnected">>

\* the entries of js a step has started: their executor was invoked
StartedIn(js, before, after) ==
  {i \in DOMAIN js : after[js[i].id] = before[js[i].id] + 1}

\* entry j is queued and eligible at time t
Eligible(e, t) ==
  e.status = "queued" /\ (e.nextRetry = NoTime \/ e.nextRetry <= t)

PassRan(op) ==
  \/ op.name \in {"retryTick", "execSucceed", "execFail"}
  \/ op.name = "enqueue" /\ op.ret

\* the entries of js on printer p that a step has started
StartedOn(p, js, before, after) ==
  {i \in StartedIn(js, before, after) : js[i].printerSystemName = p}

\* C14: a scheduling pass starts exactly one entry for every printer that is
\* idle and has an eligible queued entry, whatever waits on other printers:
\* after the pass no idle printer has an eligible entry left, no printer got
\* two entries started, and a retry tick starts one entry for each printer
\* that was idle with an eligible entry before it
C14_OnePerIdlePrinter ==
  [][PassRan(lastOp') =>
       \A p \in Printers :
         /\ Cardinality(StartedOn(p, jobs', execStarted, execStarted')) <= 1
         /\ p \notin processingPrinters'
              => ~\E j \in DOMAIN jobs' :
                    /\ jobs'[j].printerSystemName = p
                    /\ Eligible(jobs'[j], now')
         /\ (/\ lastOp'.name = "retryTick"
             /\ p \notin processingPrinters
             /\ \E j \in DOMAIN jobs :
                  jobs[j].printerSystemName = p /\ Eligible(jobs[j], now))
            => \E i \in StartedOn(p, jobs', execStarted, execStarted') :
                 jobs'[i].status = "processing"]_vars

\* one pass has just started an entry on each of two printers
C14_Witness ==
  /\ lastOp.name = "retryTick"
  /\ Len(emitted) = 2
  /\ \A p \in Printers : \E i \in DOMAIN jobs :
       jobs[i].printerSystemName = p /\ jobs[i].status = "processing"

\* C15: when the executor fails for an entry with retries < maxRetries,
\* retries grows by one, nextRetry is now + retryDelays[min(retries - 1, len - 1)]
\* for the incremented retries, the status is queued again and job-retrying is
\* emitted; and an entry is only ever started when its nextRetry is null or
\* not after now
C15_RetryBackoff ==
  [][/\ \A i \in DOMAIN jobs :
          (/\ lastOp'.name = "execFail"
           /\ lastOp'.id = jobs[i].id
           /\ jobs[i].status = "processing"
           /\ jobs[i].retries < MaxRetries)
          => \E k \in DOMAIN jobs' :
               /\ jobs'[k].id = jobs[i].id
               /\ jobs'[k].retries = jobs[i].retries + 1
               /\ jobs'[k].nextRetry =
                    now + RetryDelays[Min(jobs'[k].retries, Len(RetryDelays))]
               /\ jobs'[k].status = "queued"
               /\ Head(emitted') = Ev("job-retrying", jobs[i].id)
     /\ \A i \in StartedIn(jobs', execStarted, execStarted') :
          jobs'[i].nextRetry = NoTime \/ jobs'[i].nextRetry <= now']_vars

\* the third failure of an entry has just put it back in the queue with the
\* last delay of the list
C15_Witness ==
  \E i \in DOMAIN jobs :
    /\ jobs[i].status = "queued"
    /\ jobs[i].retries = MaxRetries
    /\ jobs[i].nextRetry = now + RetryDelays[Len(RetryDelays)]
    /\ emitted = <<Ev("job-retrying", jobs[i].id)>>

\* the entry of id is waiting or running
Pending(id) ==
  \E i \in DOMAIN jobs : jobs[i].id = id /\ jobs[i].status \in {"queued", "processing"}

\* the entry of id has failed for good, after maxRetries retries
FailedForGood(id) ==
  \E i \in DOMAIN jobs :
    jobs[i].id = id /\ jobs[i].status = "failed" /\ jobs[i].retries = MaxRetries

\* C16: a job whose executor fails on every attempt is accepted, is attempted
\* maxRetries + 1 times, and then ends failed with retries = maxRetries and
\* job-failed emitted, as long as the retry tick runs and nobody cancels it
C16_FailingJobEndsFailed ==
  /\ \A id \in Ids : Pending(id) ~> FailedForGood(id)
  /\ [][\A id \in Ids :
          (Pending(id) /\ ~Pending(id)')
          => /\ FailedForGood(id)'
             /\ Head(emitted') = Ev("job-failed", id)
             /\ execStarted'[id] % (MaxRetries + 1) = 0]_vars

\* an entry has just failed for good on its fourth attempt
C16_Witness ==
  \E id \in Ids :
    /\ FailedForGood(id)
    /\ execStarted[id] = MaxRetries + 1
    /\ emitted = <<Ev("job-failed", id)>>

\* C17: every entry has retries <= maxRetries, and every failed entry has
\* retries = maxRetries
C17_RetriesBounded ==
  \A i \in DOMAIN jobs :
    /\ jobs[i].retries <= MaxRetries
    /\ jobs[i].status = "failed" => jobs[i].retries = MaxRetries

\* one entry has failed for good while another one is still on its way
C17_Witness ==
  \E i, j \in DOMAIN jobs :
    /\ jobs[i].status = "failed"
    /\ jobs[j].status = "queued"
    /\ jobs[j].retries \in 1..(MaxRetries - 1)

\* C18: a completed entry has error null, also when earlier attempts of it
\* failed, and a failed entry has a non-empty error string
C18_ErrorMatchesStatus ==
  \A i \in DOMAIN jobs :
    /\ jobs[i].status = "completed" => jobs[i].error = NoError
    /\ jobs[i].status = "failed" => jobs[i].error \notin {NoError, ""}

\* an entry has just completed after two attempts of it had failed
C18_Witness ==
  \E i \in DOMAIN jobs :
    /\ jobs[i].status = "completed"
    /\ jobs[i].retries = 2
    /\ lastOp = Op("execSucceed", jobs[i].id, TRUE)

\* C19: whenever enqueue(j) returns false, the entries and the aggregate
\* counters are unchanged and a job-deduplicated event was emitted
C19_RejectedEnqueueChangesNothing ==
  [][(enqueueCalls' = enqueueCalls + 1 /\ ~lastOp'.ret)
       => /\ jobs' = jobs
          /\ metrics' = metrics
          /\ emitted' = <<Ev("job-deduplicated", lastOp'.id)>>]_vars

\* C19 as the code has it: whenever enqueue(j) returns false, the entries, the
\* printers in use, the pending save and the executor are untouched; for a
\* missing printerSystemName the counters are unchanged and the one event is
\* error, otherwise totalDeduplicated alone grows by one and the one event is
\* job-deduplicated
C19_RejectedEnqueueKeepsEntries ==
  [][(enqueueCalls' = enqueueCalls + 1 /\ ~lastOp'.ret)
       => /\ jobs' = jobs
          /\ processingPrinters' = processingPrinters
          /\ saveTimer' = saveTimer
          /\ execStarted' = execStarted
          /\ IF lastOp'.printer = NoPrinter
             THEN /\ metrics' = metrics
                  /\ emitted' = <<Ev("error", lastOp'.id)>>
             ELSE /\ metrics' = [metrics EXCEPT !.totalDeduplicated = @ + 1]
                  /\ emitted' = <<Ev("job-deduplicated", lastOp'.id)>>]_vars

\* a delivery was just refused as a duplicate and counted
C19_Witness ==
  /\ lastOp.name = "enqueue"
  /\ ~lastOp.ret
  /\ lastOp.printer # NoPrinter
  /\ emitted = <<Ev("job-deduplicated", lastOp.id)>>
  /\ metrics.totalDeduplicated = 1
  /\ metrics.totalEnqueued = 1

\* cancelJob(id) is the step being taken
Cancelling(id) == lastOp'.name = "cancelJob" /\ lastOp'.id = id

\* the entry of id has the given status
HasStatus(js, id, st) == \E i \in DOMAIN js : js[i].id = id /\ js[i].status = st

\* C20: cancelJob on a processing entry returns false, changes nothing, and the
\* executor's outcome (completed, retry or failed) is then applied as without
\* the call; cancelJob on a queued entry returns true, emits job-cancelled, and
\* that entry is never started afterwards, also when it was waiting for a retry
C20_CancelOnlyQueued ==
  [][\A id \in Ids :
       /\ (Cancelling(id) /\ HasStatus(jobs, id, "processing"))
          => /\ ~lastOp'.ret
             /\ emitted' = <<>>
             /\ UNCHANGED <<jobs, processingPrinters, processingLock, metrics,
                            saveTimer, execStarted, execCompleted, now>>
       /\ (HasStatus(jobs, id, "processing") /\ ~HasStatus(jobs', id, "processing"))
          => /\ lastOp'.name \in {"execSucceed", "execFail"}
             /\ lastOp'.id = id
             /\ Head(emitted') \in {Ev("job-completed", id), Ev("job-retrying", id),
                                    Ev("job-failed", id)}
             /\ ~HasStatus(jobs', id, "cancelled")
       /\ (Cancelling(id) /\ HasStatus(jobs, id, "queued"))
          => /\ lastOp'.ret
             /\ emitted' = <<Ev("job-cancelled", id)>>
             /\ HasStatus(jobs', id, "cancelled")
             /\ execStarted' = execStarted
       /\ (HasStatus(jobs, id, "cancelled")
           /\ ~(lastOp' = OpOn("enqueue", id, lastOp'.printer, TRUE)
                /\ enqueueCalls' = enqueueCalls + 1))
          => /\ execStarted'[id] = execStarted[id]
             /\ ~HasStatus(jobs', id, "processing")
             /\ ~HasStatus(jobs', id, "queued")]_vars

\* an entry was cancelled between two attempts, its retry date has passed, and
\* the printer it waited for has just finished another job and stays idle
C20_Witness ==
  \E i \in DOMAIN jobs :
    /\ jobs[i].status = "cancelled"
    /\ jobs[i].retries > 0
    /\ jobs[i].nextRetry <= now
    /\ execStarted[jobs[i].id] = jobs[i].retries
    /\ lastOp.name = "execSucceed"
    /\ lastOp.id # jobs[i].id
    /\ processingPrinters = {}

\* _expireJobs() is the step being taken
Expiring == lastOp'.name = "expireTick"

\* the events of the given name in a list of events
RECURSIVE EventsNamed(_, _)
EventsNamed(evs, name) ==
  IF evs = <<>> THEN <<>>
  ELSE (IF Head(evs).name = name THEN <<Head(evs).id>> ELSE <<>>)
       \o EventsNamed(Tail(evs), name)

\* C21: at an expiration tick every entry that is queued with expiresAt < now
\* becomes expired with the TTL error and emits job-expired, never job-failed,
\* and totalFailed does not move; an expired entry is never started afterwards
C21_ExpiryIsNotFailure ==
  [][/\ Expiring =>
          /\ DOMAIN jobs' = DOMAIN jobs
          /\ \A i \in DOMAIN jobs :
               (jobs[i].status = "queued" /\ jobs[i].expiresAt < now)
               => /\ jobs'[i].id = jobs[i].id
                  /\ jobs'[i].status = "expired"
                  /\ jobs'[i].error = "Job expired (TTL exceeded)"
                  /\ \E k \in DOMAIN emitted' : emitted'[k] = Ev("job-expired", jobs[i].id)
          /\ EventsNamed(emitted', "job-failed") = <<>>
          /\ metrics'.totalFailed = metrics.totalFailed
          /\ execStarted' = execStarted
     /\ \A id \in Ids :
          (HasStatus(jobs, id, "expired")
           /\ ~(lastOp' = OpOn("enqueue", id, lastOp'.printer, TRUE)
                /\ enqueueCalls' = enqueueCalls + 1))
          => /\ execStarted'[id] = execStarted[id]
             /\ ~HasStatus(jobs', id, "processing")
             /\ ~HasStatus(jobs', id, "queued")]_vars

\* an entry that waited for its printer is expired, and the pass that ran when
\* the printer became free has not started it
C21_Witness ==
  \E i \in DOMAIN jobs :
    /\ jobs[i].status = "expired"
    /\ jobs[i].error = "Job expired (TTL exceeded)"
    /\ metrics.totalExpired = 1
    /\ metrics.totalFailed = 0
    /\ lastOp.name = "execSucceed"
    /\ lastOp.id # jobs[i].id
    /\ processingPrinters = {}

\* C22: a job enqueued with a short ttl for a printer that is not registered
\* is expired with the TTL error at the first expiration tick, its retries
\* counter still as at enqueue, and the expiry changes only status, updatedAt
\* and error
C22_ExpiredUntouched ==
  [][Expiring =>
       \A i \in DOMAIN jobs :
         (/\ jobs[i].printerSystemName \in Unregistered
          /\ jobs[i].status = "queued"
          /\ jobs[i].expiresAt < now)
         => /\ jobs'[i] = [jobs[i] EXCEPT !.status = "expired", !.updatedAt = now,
                                          !.error = "Job expired (TTL exceeded)"]
            /\ jobs'[i].retries = 0]_vars

\* C23: a job that fails validation, by a missing printerSystemName or by an
\* unsupported documentType, is rejected at once and never retried: it does not
\* enter the retry cycle and the executor is invoked for it at most once
C23_InvalidJobNotRetried ==
  [][/\ (enqueueCalls' = enqueueCalls + 1 /\ lastOp'.printer = NoPrinter)
        => /\ ~lastOp'.ret
           /\ jobs' = jobs
           /\ execStarted' = execStarted
     /\ \A i \in DOMAIN jobs' :
          jobs'[i].id \in Unsupported
          => /\ jobs'[i].retries = 0
             /\ jobs'[i].nextRetry = NoTime
             /\ execStarted'[jobs'[i].id] <= metrics'.totalEnqueued
     /\ \A k \in DOMAIN emitted' :
          emitted'[k].name = "job-retrying" => emitted'[k].id \notin Unsupported]_vars

\* the entry of id is queued or processing
LiveIn(js, id) == HasStatus(js, id, "queued") \/ HasStatus(js, id, "processing")

\* the entries a step starts from: what load() has just parsed, else this.jobs
EntriesBefore ==
  IF lastOp'.name = "load"
  THEN (IF raw'.kind = "full" THEN raw'.jobs ELSE <<>>)
  ELSE jobs

\* how many terminal events a list of events holds for id
TerminalEvents(evs, id) ==
  Cardinality({k \in DOMAIN evs :
                 /\ evs[k].id = id
                 /\ evs[k].name \in {"job-completed", "job-failed", "job-expired",
                                     "job-cancelled"}})

\* C24: an entry gets exactly one terminal event (job-completed, job-failed,
\* job-expired or job-cancelled), in the step in which it enters its terminal
\* status; none becomes terminal without one and none gets two
C24_OneTerminalEvent ==
  [][lastOp'.name # "crash" =>
       \A id \in Ids :
         TerminalEvents(emitted', id) =
           IF LiveIn(EntriesBefore, id) /\ ~LiveIn(jobs', id) THEN 1 ELSE 0]_vars

\* the positions of calls at which the callback got a terminal status
TerminalCalls(calls) ==
  {k \in DOMAIN calls : calls[k].status \in {"completed", "failed"}}

\* C25: in every session that is not cancelled the callback gets a terminal
\* status (completed or failed) exactly once and is not invoked after that,
\* also when several sessions are active at the same time
C25_OneTerminalCallback ==
  \A s \in 1..MaxSessions :
    (sessions[s].started /\ ~sessions[s].cancelled)
    => /\ TerminalCalls(sessions[s].calls) \subseteq {Len(sessions[s].calls)}
       /\ ~Monitoring(sessions[s]) => TerminalCalls(sessions[s].calls) # {}

\* two sessions that ran side by side have both ended, one of them after
\* reporting progress
C25_Witness ==
  /\ \A s \in 1..MaxSessions :
       /\ sessions[s].started
       /\ ~sessions[s].cancelled
       /\ ~Monitoring(sessions[s])
       /\ sessions[s].osJobId # NoJobId
  /\ sessions[2].concurrent
  /\ Len(sessions[1].calls) > 1
  /\ sessions[1].calls[Len(sessions[1].calls)].status = "failed"
  /\ sessions[2].calls[Len(sessions[2].calls)].status = "completed"

\* session s has just found its job gone from the spooler
FoundMissing(s) ==
  /\ sessions[s].interval
  /\ ~sessions'[s].interval
  /\ sessions'[s].ticks = sessions[s].ticks + 1
  /\ sessions'[s].lastObs = Missing

\* session s has just polled and found an error state, and no status that
\* ends the session
FoundError(s) ==
  /\ sessions[s].interval
  /\ sessions'[s].ticks = sessions[s].ticks + 1
  /\ sessions'[s].lastObs \cap {"BLOCKED", "ERROR", "OFFLINE", "PAPEROUT"} # {}
  /\ sessions'[s].lastObs \cap {"PRINTED", "CANCELLED", "ABORTED"} = {}

\* C26: when the job is no longer in the spooler the session ends, with
\* completed if the job was seen PRINTING at an earlier tick and the condition
\* recorded last is not an error state, else with failed; PRINTING after an
\* error state clears the error condition; an error state alone ends nothing
C26_MissingJobOutcome ==
  [][\A s \in 1..MaxSessions :
       /\ FoundMissing(s)
          => /\ Len(sessions'[s].calls) = Len(sessions[s].calls) + 1
             /\ sessions'[s].calls[Len(sessions'[s].calls)].status =
                  IF sessions[s].everPrinting /\ sessions[s].condition # "error"
                  THEN "completed" ELSE "failed"
       /\ FoundError(s)
          => /\ sessions'[s].interval
             /\ sessions'[s].calls = Append(sessions[s].calls, Call("printing", TRUE))]_vars

\* a job that was blocked, then printed, has left the spooler and is reported
\* completed
C26_Witness ==
  \E s \in 1..MaxSessions :
    /\ sessions[s].lastObs = Missing
    /\ sessions[s].calls = <<Call("printing", TRUE), Call("printing", FALSE),
                             Call("completed", FALSE)>>

\* the interval of session s has just fired
Fired(s) == sessions[s].interval /\ sessions'[s].ticks = sessions[s].ticks + 1

\* C27: every session that is not cancelled ends with a terminal callback; a
\* session with an osJobId that has polled for maxPollTime without an end
\* reports completed at its next tick and stops polling; a session without
\* osJobId reports completed once and never polls
C27_SessionTerminates ==
  /\ \A s \in 1..MaxSessions :
       sessions[s].started
       ~> (sessions[s].cancelled \/ TerminalCalls(sessions[s].calls) # {})
  /\ [][\A s \in 1..MaxSessions :
          (Fired(s) /\ sessions[s].ticks = MaxPollTicks)
          => /\ ~sessions'[s].interval
             /\ sessions'[s].calls = Append(sessions[s].calls, Call("completed", FALSE))]_vars
  /\ [](\A s \in 1..MaxSessions :
          (sessions[s].started /\ sessions[s].osJobId = NoJobId)
          => /\ sessions[s].ticks = 0
             /\ ~sessions[s].interval
             /\ sessions[s].calls = IF sessions[s].timer THEN <<>>
                                    ELSE <<Call("completed", FALSE)>>)

\* a job that stayed in an error state for all of maxPollTime is reported
\* completed by the tick after it
C27_Witness ==
  \E s \in 1..MaxSessions :
    /\ sessions[s].ticks = MaxPollTicks + 1
    /\ ~sessions[s].interval
    /\ ~sessions[s].cancelled
    /\ Len(sessions[s].calls) = MaxPollTicks + 1
    /\ \A k \in 1..MaxPollTicks : sessions[s].calls[k] = Call("printing", TRUE)
    /\ sessions[s].calls[MaxPollTicks + 1] = Call("completed", FALSE)

\* _scheduleReconnect has just armed the reconnect timer
Scheduled == ~client.reconnectTimer /\ client'.reconnectTimer

\* the counter goes up by one exactly when an attempt is scheduled, and is 0
\* whenever the state becomes connected
CounterSteps ==
  /\ Scheduled <=> client'.reconnectAttempts = client.reconnectAttempts + 1
  /\ client'.reconnectAttempts \in
       {client.reconnectAttempts, client.reconnectAttempts + 1, 0}
  /\ (client.state # "connected" /\ client'.state = "connected")
     => client'.reconnectAttempts = 0

\* C28: the delay of the attempt scheduled when the counter is n is
\* delays[min(n, 6)] over 5, 5, 10, 10, 30, 30, 60 s and never above 300 s; the
\* counter goes up by one per scheduled attempt and back to 0 on connected
C28_DelayClamped ==
  [][/\ Scheduled
        => /\ client'.delay =
                ReconnectDelays[Min(client.reconnectAttempts, 6) + 1]
           /\ client'.delay <= 300
     /\ CounterSteps]_vars

\* C28 as the code has it: the delay of the attempt scheduled when the counter
\* is n is delays[n] over 5, 5, 10, 10, 30, 30, 60 s for n < 7 and 300 s from
\* n = 7 on; the counter goes up by one per scheduled attempt and back to 0 on
\* connected
C28_DelayThenMax ==
  [][/\ Scheduled
        => /\ client'.delay =
                IF client.reconnectAttempts < 7
                THEN <<5, 5, 10, 10, 30, 30, 60>>[client.reconnectAttempts + 1]
                ELSE 300
           /\ client'.delay <= 300
     /\ CounterSteps]_vars

\* the eighth attempt in a row is scheduled, five minutes ahead
C28_Witness ==
  /\ client.reconnectTimer
  /\ client.reconnectAttempts = 8
  /\ client.delay = 300

\* the entry of id, which is unique
EntryOf(js, id) == js[FindIndex(js, id)]

\* the executor of id has just failed and the entry is queued for a retry
Retried(id) ==
  /\ lastOp' = Op("execFail", id, FALSE)
  /\ HasStatus(jobs, id, "processing")
  /\ HasStatus(jobs', id, "queued")

\* a retried job keeps its id and its entry
RetryKeepsEntry ==
  \A id \in Ids :
    Retried(id)
    => /\ Cardinality({i \in DOMAIN jobs' : jobs'[i].id = id}) = 1
       /\ EntryOf(jobs', id) =
            [EntryOf(jobs, id) EXCEPT !.status = "queued",
                                      !.retries = @ + 1,
                                      !.nextRetry = EntryOf(jobs', id).nextRetry,
                                      !.updatedAt = now,
                                      !.error = EntryOf(jobs', id).error]

\* the other entries of i's printer that wait for a retry and are eligible
RetriedRivals(js, i, t) ==
  {j \in DOMAIN js :
     /\ j # i
     /\ js[j].printerSystemName = js[i].printerSystemName
     /\ js[j].retries > 0
     /\ Eligible(js[j], t)}

\* C29: a retried job keeps its id and its entry, and among the entries for one
\* printer that are eligible again after a retry the one with the earlier
\* nextRetry is restarted first, whatever their createdAt
C29_RetryOrderByNextRetry ==
  [][/\ RetryKeepsEntry
     /\ \A i \in StartedIn(jobs', execStarted, execStarted') :
          jobs'[i].retries > 0
          => \A j \in RetriedRivals(jobs', i, now') :
               jobs'[j].nextRetry >= jobs'[i].nextRetry]_vars

\* C29 as the code has it: a retried job keeps its id and its entry and is not
\* restarted before its nextRetry; among the entries for one printer that are
\* eligible again after a retry, the order of restart is by priority and then
\* by createdAt, whatever their nextRetry
C29_RetryOrderByAge ==
  [][/\ RetryKeepsEntry
     /\ \A i \in StartedIn(jobs', execStarted, execStarted') :
          jobs'[i].retries > 0
          => /\ jobs'[i].nextRetry <= now'
             /\ \A j \in RetriedRivals(jobs', i, now') :
                  /\ PrioOf(jobs'[j].priority) >= PrioOf(jobs'[i].priority)
                  /\ (PrioOf(jobs'[j].priority) = PrioOf(jobs'[i].priority)
                        => jobs'[j].createdAt >= jobs'[i].createdAt)]_vars

\* a pass has just restarted the older of two retried entries of one printer
\* although the younger one was due earlier
C29_Witness ==
  \E i, j \in DOMAIN jobs :
    /\ jobs[i].status = "processing"
    /\ jobs[i].retries > 0
    /\ emitted = <<Ev("job-processing", jobs[i].id)>>
    /\ jobs[j].printerSystemName = jobs[i].printerSystemName
    /\ jobs[j].retries > 0
    /\ Eligible(jobs[j], now)
    /\ jobs[j].nextRetry < jobs[i].nextRetry
    /\ jobs[j].createdAt > jobs[i].createdAt

\* the keys getStats counts: its object literal has no key for cancelled
CountedStatuses == {"queued", "processing", "completed", "failed", "expired"}

\* how many entries of js are in status st
CountOf(js, st) == Cardinality({i \in DOMAIN js : js[i].status = st})

\* getStats(): a count is incremented only where the key is already defined
GetStats(js, printers, m) ==
  [k \in CountedStatuses \cup {"total", "activePrinters", "metrics"} |->
     CASE k \in CountedStatuses -> CountOf(js, k)
       [] k = "total" -> Len(js)
       [] k = "activePrinters" -> Cardinality(printers)
       [] k = "metrics" -> m]

\* the count stats gives for status k; a key it does not have counts no entry
Read(stats, k) == IF k \in DOMAIN stats THEN stats[k] ELSE 0

\* the printers for which an executor is in flight
Executing == {p \in Printers : ProcessingOn(p) # {}}

\* C30: getStats() returns for each of the six statuses the number of entries
\* currently in that status, so that the six counts add up to the number of
\* entries, and activePrinters is the number of printers executing a job
C30_StatsCountEntries ==
  LET stats == GetStats(jobs, processingPrinters, metrics) IN
    /\ \A st \in CountedStatuses \cup {"cancelled"} :
         Read(stats, st) = CountOf(jobs, st)
    /\ Read(stats, "queued") + Read(stats, "processing")
         + Read(stats, "completed") + Read(stats, "failed")
         + Read(stats, "expired") + Read(stats, "cancelled") = Len(jobs)
    /\ Read(stats, "activePrinters") = Cardinality(Executing)

\* the execute callback of entry i has just resolved after its monitor
\* reported status
ResolvedAfter(i, status) ==
  /\ i \in DOMAIN jobs
  /\ jobs[i].status = "processing"
  /\ lastOp' = Op("execSucceed", jobs[i].id, TRUE)
  /\ SessionInFlight \in 1..MaxSessions
  /\ Verdict(sessions[SessionInFlight]) = status

\* C31: when the spooler monitor reports failed for an execution (the job was
\* cancelled, aborted, or left the spooler before printing), the queue entry
\* does not end as completed and job-completed is not emitted for that attempt
C31_FailedPrintNotCompleted ==
  [][\A i \in 1..Cardinality(Ids) :
       ResolvedAfter(i, "failed")
       => /\ ~HasStatus(jobs', jobs[i].id, "completed")
          /\ EventsNamed(emitted', "job-completed") = <<>>]_vars

\* the executor of the entry at i has just settled
Settled(i) ==
  /\ i \in DOMAIN jobs
  /\ jobs[i].status = "processing"
  /\ lastOp'.name \in {"execSucceed", "execFail"}
  /\ lastOp'.id = jobs[i].id

\* every entry is in a terminal status and no printer is busy
AllSettled ==
  /\ \A i \in DOMAIN jobs : jobs[i].status \in TerminalStatuses
  /\ processingPrinters = {}

\* C32: after every executor outcome, success or failure, the printer of the
\* entry is released and a scheduling pass runs (the printer is busy again
\* only with an entry that pass started, and no idle printer is left with an
\* eligible entry); hence, when every executor call settles, the retry tick
\* keeps running and no new jobs arrive, every entry ends in a terminal status
\* and the set of busy printers becomes empty
C32_SettleReleasesAndSchedules ==
  /\ [][\A i \in 1..Cardinality(Ids) :
          Settled(i)
          => LET p == jobs[i].printerSystemName IN
               /\ p \in processingPrinters'
                    => StartedOn(p, jobs', execStarted, execStarted') # {}
               /\ \A q \in Printers :
                    q \notin processingPrinters'
                    => ~\E j \in DOMAIN jobs' :
                          /\ jobs'[j].printerSystemName = q
                          /\ Eligible(jobs'[j], now')]_vars
  /\ <>[]AllSettled

\* the executor of one entry has just succeeded, the pass that followed has
\* started the entry that waited behind it for the same printer
C32_Witness ==
  /\ lastOp.name = "execSucceed"
  /\ \E i, j \in DOMAIN jobs :
       /\ jobs[i].id = lastOp.id
       /\ jobs[i].status = "completed"
       /\ jobs[j].printerSystemName = jobs[i].printerSystemName
       /\ jobs[j].status = "processing"
       /\ emitted = <<Ev("job-completed", jobs[i].id),
                      Ev("job-processing", jobs[j].id)>>

\* load() has just returned
Loaded == lastOp'.name = "load"

\* C33: immediately after load() no entry is processing and no printer is
\* marked busy: every entry persisted as processing is queued with nextRetry
\* cleared, or expired if its expiresAt has passed, and no queued entry is
\* past its expiresAt, before any scheduling pass has run
C33_LoadDemotesAndExpires ==
  [][Loaded =>
       /\ processingPrinters' = {}
       /\ \A i \in DOMAIN jobs' :
            /\ jobs'[i].status # "processing"
            /\ jobs'[i].status = "queued" => ~(jobs'[i].expiresAt < now')
       /\ raw'.kind = "full" =>
            /\ DOMAIN jobs' = DOMAIN raw'.jobs
            /\ \A i \in DOMAIN raw'.jobs :
                 raw'.jobs[i].status = "processing"
                 => IF raw'.jobs[i].expiresAt < now'
                    THEN jobs'[i].status = "expired"
                    ELSE /\ jobs'[i].status = "queued"
                         /\ jobs'[i].nextRetry = NoTime
       /\ execStarted' = execStarted]_vars

\* load() has just recovered a file with two entries persisted as processing
\* and queued: the first is queued again, the second is expired
C33_Witness ==
  /\ lastOp.name = "load"
  /\ raw.kind = "full"
  /\ \E i, j \in DOMAIN raw.jobs :
       /\ raw.jobs[i].status = "processing"
       /\ jobs[i].status = "queued"
       /\ jobs[i].nextRetry = NoTime
       /\ raw.jobs[j].status = "queued"
       /\ jobs[j].status = "expired"

\* socketClient.js:11-17  STATE
ConnectionStates ==
  {"disconnected", "connecting", "authenticating", "connected", "reconnecting"}

\* the changes of state the session is meant to make
StateEdges ==
  { <<"disconnected", "connecting">>, <<"reconnecting", "connecting">>,
    <<"connecting", "authenticating">>, <<"authenticating", "connected">>,
    <<"disconnected", "reconnecting">> }
  \cup {<<st, "disconnected">> : st \in ConnectionStates}

\* the values this.state takes in one step, in order: the 'disconnect'
\* handler and the catch block of _attemptReconnect set disconnected before
\* _scheduleReconnect sets reconnecting
StatePath ==
  IF \E k \in DOMAIN sockEmitted' :
       sockEmitted'[k] \in {"disconnected", "reconnect_failed"}
  THEN <<client.state, "disconnected", client'.state>>
  ELSE <<client.state, client'.state>>

\* C34: the connection state is always one of the five defined values and it
\* changes only along disconnected->connecting, reconnecting->connecting,
\* connecting->authenticating, authenticating->connected,
\* disconnected->reconnecting and any state->disconnected
C34_StateEdges ==
  /\ [](client.state \in ConnectionStates)
  /\ [][\A k \in 1..(Len(StatePath) - 1) :
          \/ StatePath[k] = StatePath[k + 1]
          \/ <<StatePath[k], StatePath[k + 1]>> \in StateEdges]_vars

\* C35: the session emits reconnected only while its state is connected, and
\* whenever the connected flag of the orchestrator is true the state of the
\* session is connected, also when the socket drops while the cached printers
\* are re-registered after a reconnect
C35_ConnectedFlagAgrees ==
  /\ (\E k \in DOMAIN sockEmitted : sockEmitted[k] = "reconnected")
       => client.state = "connected"
  /\ core.connected => client.state = "connected"

\* C36: every request-style emit settles exactly once, resolved by its ack,
\* rejected by an error event or rejected at its timeout, and once it has
\* settled neither of its listeners remains on the socket, also when the
\* socket is replaced by a reconnection attempt or cleared by disconnect()
\* while the request is in flight: resolve or reject is called at most once,
\* a pending request still has the timer that will reject it, and a settled
\* request has neither listeners nor timer
C36_RequestSettlesOnce ==
  \A i \in DOMAIN requests :
    /\ requests[i].calls <= 1
    /\ requests[i].outcome = "pending" => requests[i].timer
    /\ requests[i].outcome # "pending"
         => ~requests[i].listening /\ ~requests[i].timer

\* C37: the inbound handlers are attached at most once per socket instance
\* and at most one socket instance is live at any time, the previous one
\* having its listeners removed and being closed before a new one is created,
\* so that each new_print_job that arrives reaches the orchestrator exactly
\* once
C37_OneSocketOneHandlerSet ==
  /\ [](client.handlerSets <= 1 /\ client.orphans = 0)
  /\ [][core'.jobsReceived # core.jobsReceived
          => /\ core'.jobsReceived = core.jobsReceived + 1
             /\ sockEmitted' = <<"new_print_job">>]_vars

\* a job has just arrived on the socket of a session that was lost and
\* re-established
C37_Witness ==
  /\ lost
  /\ client.state = "connected"
  /\ client.reconnectAttempts = 0
  /\ sockEmitted = <<"new_print_job">>
  /\ core.jobsReceived = 2

\* a connection attempt was started after attempt i
LaterAttempt(i) == i \in DOMAIN attempts /\ i < Len(attempts)

\* C38: a timeout timer armed by one connection attempt (the 15 s timer of
\* connect(), the 15 s timer of a reconnection attempt, the 10 s timer of
\* authenticate) changes nothing of the session (state, socket, reconnect
\* timer) once a later connection attempt has been started
C38_StaleTimersAreInert ==
  [][/\ (ConnectTimeout /\ \E j \in DOMAIN attempts : attempts[j].kind = "reconnect")
          => client' = client
     /\ \A i \in 1..MaxLiveAttempts :
          (LaterAttempt(i) /\ (AttemptTimeout(i) \/ AuthTimeout(i)))
          => client' = client]_vars

\* C39: no scheduling pass starts an entry whose expiresAt is already in the
\* past, also when no expiration tick has run since expiresAt passed
C39_NoStartPastExpiry ==
  [][\A i \in StartedIn(jobs', execStarted, execStarted') :
       ~(jobs'[i].expiresAt < now')]_vars

\* the register_printer requests made for descriptor p
RegistrationsOf(p) ==
  {i \in DOMAIN requests :
     requests[i].event = "register_printer" /\ requests[i].printer = p}

\* C40: the cache of registered printers holds at most one descriptor per
\* systemName and only descriptors whose registration the backend has
\* acknowledged: a descriptor whose registerPrinter call has failed or timed
\* out is not in the cache (one whose call is still in flight is not held
\* against the cache here)
C40_CacheOnlyAcknowledged ==
  LET cache == client.registeredPrintersCache IN
    /\ \A k, l \in DOMAIN cache : cache[k] = cache[l] => k = l
    /\ \A k \in DOMAIN cache :
         \E i \in RegistrationsOf(cache[k]) :
           requests[i].outcome \in {"resolved", "pending"}

====
